---- MODULE Spec2Model ----
(***************************************************************************)
(* A model of the hekate supervision and routing engine: the supervisor    *)
(* loop and its agent manager, the quota tracker, the router, and the      *)
(* event hooks that share state through the coordination store (Redis).    *)
(* Every Redis key the modelled code touches is a variable; an absent key  *)
(* (a nil reply, Python's None) is the value NoKey.  Keys with a TTL carry *)
(* the time they were set and exist while the clock is below set + TTL.    *)
(***************************************************************************)
EXTENDS Integers, Sequences, FiniteSets, TLC

NoKey == "nil"

\* absent keys of the store, by the shape of their values
NoOwner == [val |-> NoKey, at |-> 0]
NoWindow == [fmt |-> NoKey, t |-> 0]
NoCount == 0 - 1

Providers == {"claude", "glm", "deepseek", "openrouter"}

(***************************************************************************)
(* Bounds of the model.                                                    *)
(***************************************************************************)
\* iterations of Supervisor.run a supervisor performs
MaxIter == 3
\* long passages of time the clock may take besides the supervisor's sleeps
MaxTicks == 2
\* tasks an epic is decomposed into
MaxEpicTasks == 2
\* spawn-agents hook runs each trigger starts
MaxHookRuns == 1
\* git commit or git push commands the sessions issue
MaxCommits == 2
\* seconds of one long passage of time
LongStep == 1800
\* the quota count up to which increments are started
MaxCount == 51
\* verify-prefetch hook runs
MaxPrefetchRuns == 3
\* track-outcome hook runs
MaxTrackRuns == 2
\* memory-hook runs tried, and the entries the lists start with
MaxSeed == 1
MaxBeatTime == 150
MaxMemRuns == 4
RecentFill == 99
TypeFill == 49

(***************************************************************************)
(* Program constants.                                                      *)
(***************************************************************************)
ClaimTTL == 3600
HeartbeatTTL == 90
HeartbeatMaxAge == 120
SleepSeconds == 10

Sups == {"s1", "s2"}
Tasks == {"T1", "T2", "T3"}


\* the task dictionaries of the ready list (complexity, type)
TaskInfo(t) ==
    [id |-> t, complexity |-> "complex", type |-> "implementation"]

\* config["providers"][p]["pool_size"]
PoolSizeClaude == 2
PoolSizeGlm == 4
PoolSizeDeepseek == 6
PoolSizeOpenrouter == 2

PoolSize(p) ==
    CASE p = "claude" -> PoolSizeClaude
      [] p = "glm" -> PoolSizeGlm
      [] p = "deepseek" -> PoolSizeDeepseek
      [] OTHER -> PoolSizeOpenrouter

\* config["providers"][p]: quota_limit, window_hours, buffer_percent
QuotaLimitClaude == 45
BufferPercentClaude == 20
QuotaLimitGlm == 180
BufferPercentGlm == 3
WindowHours == 5
ClaudeConservative == 40

\* Supervisor._initialize_quotas: a tracker for the subscription providers, None else
HasQuota(p) == p \in {"claude", "glm"}
Limit(p) == IF p = "claude" THEN QuotaLimitClaude ELSE QuotaLimitGlm
BufferPercent(p) == IF p = "claude" THEN BufferPercentClaude ELSE BufferPercentGlm

VARIABLES
    now,          \* the wall clock, in seconds
    ticks,        \* long passages of time taken so far
    \* ---- coordination store: supervisor keys
    owner,        \* task:<id>:owner     -> [val, at]                 (EX 3600)
    heartbeat,    \* agent:<id>:heartbeat -> set time                  (EX 90)
    agentTask,    \* agent:<id>:task     -> task id                   (no TTL)
    qWindow,      \* quota:<p>:window_start -> [fmt, t]
    qCount,       \* quota:<p>:count     -> a number, NoCount when absent
    \* ---- issue store
    ready,        \* what `bd ready --json` answers: the ready tasks, in order
    isOwner,      \* the owner metadata `bd update --metadata owner=` wrote
    \* ---- supervisors
    supPc,        \* where each supervisor is in run()
    supCur,       \* the task and provider of the _assign_task under way
    supIter,      \* iterations of run() completed
    agents,       \* AgentManager.agents: agent id -> state of its process
    pools,        \* Supervisor.agent_pools[p]["active"]
    spawnCount,   \* spawn_agent calls made for each task
    lastResult,   \* how each supervisor's latest _assign_task of a task ended
    \* ---- coordination store: epic and task keys of the hooks
    epicStatus,        \* epic:<id>:status
    epicTaskCount,     \* epic:<id>:task_count
    epicCompleteCount, \* epic:<id>:complete_count
    taskEpic,          \* task:<id>:epic_id
    taskStatus,        \* task:<id>:status
    taskClaimed,       \* task:<id>:claimed                          (no TTL)
    taskProvider,      \* task:<id>:provider
    taskComplexity,    \* task:<id>:complexity
    taskSessionPid,    \* task:<id>:session_pid
    hookAgentTask,     \* agent:<pid>:task_id, by pid                  (no TTL)
    hookHeartbeat,     \* agent:<pid>:heartbeat, the time it was set    (EXPIRE 30)
    sessionTask,       \* session:<id>:task_id, by the session's pid (NoKey: absent)
    \* ---- issue store
    bdStatus,          \* the status `bd list` shows for each task
    \* ---- hook processes and the children they spawn
    procs,             \* the children, by pid: task, provider, alive, and where
                       \* the complete-task hook of their session is
    hPc,               \* where each spawn-agents hook run is
    hPending,          \* its pending_tasks still to handle
    hCounts,           \* its provider_counts
    hRuns,             \* spawn-agents hook runs started by each trigger
    claimedAt,         \* when the hook marked each task claimed
    banners,           \* "epic complete" banners emitted
    commits            \* git commit or git push commands issued so far

supVars == <<owner, heartbeat, agentTask, ready, isOwner, supPc, supCur, supIter,
             agents, pools, spawnCount, lastResult>>
quotaVars == <<qWindow, qCount>>
clockVars == <<now, ticks>>
hookVars == <<epicStatus, epicTaskCount, epicCompleteCount, taskEpic, taskStatus,
              taskClaimed, taskProvider, taskComplexity, taskSessionPid, hookAgentTask,
              hookHeartbeat, sessionTask, bdStatus, procs, hPc, hPending, hCounts,
              hRuns, claimedAt, banners, commits>>

VARIABLES
    \* ---- callers of QuotaTracker and runs of the pre-tool-use router hook
    tPc,          \* where each caller is in its QuotaTracker call
    tOp,          \* the call under way: its name and its reserve_for_emergency flag
    tReturn,      \* what the caller's latest can_use read and returned
    rPc,          \* where each router hook run is
    rAssigned,    \* assigned_provider of the run
    rHeartbeat    \* agent:<pid>:heartbeat of the hook's process -> set time (EXPIRE 30)

VARIABLES
    toolSession,  \* session:<session_id>:task_id of the session whose tool calls are hooked
    \* ---- verification slots and the runs of the two verification hooks
    vSlot,        \* verify:prefetch:<task>:<provider> -> the JSON blob, with its set time (EXPIRE 600)
    vLog,         \* the status values written to each slot since it was last created
    vPc,          \* the verify-prefetch run under way: its task, complexity, providers left
    vRuns,        \* verify-prefetch runs started
    vInject       \* how the latest verify-inject run ended

trackVars == <<tPc, tOp, tReturn, rPc, rAssigned, rHeartbeat>>
VARIABLES
    \* ---- routing outcomes and the runs of the track-outcome hook
    historyLen,   \* LLEN routing:history
    pRecord,      \* routing:pattern:<feature_hash> -> [attempts, successes, at]   (EXPIRE 86400)
    pWrites,      \* SETs of each pattern key since it was last created
    sRecord,      \* provider:stats:<provider> -> [attempts, successes] (total_tasks, successful_tasks)
    cRecord,      \* provider:complexity:<provider>:<complexity> -> [attempts, successes]
    cWrites,      \* SETs of the complexity stats key
    kPc,          \* where each track-outcome run is
    kLocal,       \* its feature hash, its success flag, the blob it read last
    kRuns         \* track-outcome runs started

verifyVars == <<vSlot, vLog, vPc, vRuns, vInject>>
patternVars == <<historyLen, pRecord, pWrites, sRecord, cRecord, cWrites, kPc, kLocal, kRuns>>
VARIABLES
    \* ---- the recent-memory lists and the runs of the post-tool-use memory hook
    memList,      \* memory:inbox:recent, memory:inbox:type:<type>, memory:inbox:provider:<provider>
    memAt,        \* when each list was last given its TTL (EXPIRE)
    memPushed,    \* how many entries were ever pushed onto each list
    memPc,        \* where each hook process is in its run
    memRuns       \* hook runs started so far

VARIABLES
    \* ---- history of the quota window
    winIncrs      \* increment() calls completed since the current window was opened

VARIABLES
    \* ---- kill_agent beside the heartbeat thread
    killPc,       \* the agent kill_agent is busy with, after terminate and wait
    hbPolled,     \* the agent heartbeat_worker has just found running (poll() is None)
    killDone      \* the agents for which kill_agent has returned True

VARIABLES
    \* ---- the environment handed to the supervisor's children
    supEnviron,   \* os.environ of the supervisor process
    agSession     \* session:<id>:task_id and :provider of each such child's session

VARIABLES
    \* ---- the pattern key each hook process computes
    hashProc      \* its hash seed, its feature vector and the key it computed

VARIABLES
    \* ---- the heartbeat thread of the AgentManager
    beatAt        \* when heartbeat_worker last went round the agent map

VARIABLES
    \* ---- the tool-use hooks up to their look-up of the session's task
    hkExit        \* how the last run of each hook left that look-up

VARIABLES
    \* ---- one routing decision: its inputs and what each router returned
    rtTask,       \* the task dict handed to ProviderRouter: type, complexity, previous_provider
    rtPattern,    \* the reply to GET routing:pattern:<feature hash of the task>
    rtStats,      \* the replies to GET provider:complexity:<provider>:<complexity of the task>
    rtBase,       \* task:<id>:provider, the hook's current_provider
    rtOut         \* what route_task, cascade and find_best_provider_by_pattern returned

memVars == <<memList, memAt, memPushed, memPc, memRuns>>
ctxVars == <<hkExit>>
beatVars == <<beatAt>>
winVars == <<winIncrs>>
killVars == <<killPc, hbPolled, killDone>>
rtVars == <<rtTask, rtPattern, rtStats, rtBase, rtOut>>
envVars == <<supEnviron, agSession>>
keyVars == <<hashProc>>
restVars == <<memVars, ctxVars, beatVars, winVars, killVars, envVars, keyVars>>
routeVars == <<rtTask, rtPattern, rtStats, rtBase, rtOut, restVars>>
toolVars == <<trackVars, verifyVars, patternVars, toolSession, routeVars>>

(***************************************************************************)
(* Redis keys with a TTL.                                                  *)
(***************************************************************************)
\* a key set at time `at` with EX ttl is still there
Live(at, ttl) == now < at + ttl

OwnerExists(t) == owner[t].val # NoKey /\ Live(owner[t].at, ClaimTTL)

HeartbeatExists(a) == a \in DOMAIN heartbeat /\ Live(heartbeat[a], HeartbeatTTL)

(***************************************************************************)
(* QuotaTracker (src/src/hekate/quota.py).                                 *)
(***************************************************************************)
\* int(limit * (1 - buffer_percent / 100)); exact for the configured values
BufferLimit(p) == (Limit(p) * (100 - BufferPercent(p))) \div 100

\* QuotaTracker._ensure_window: the window it leaves behind
WindowAfterEnsure(p) ==
    IF qWindow[p] = NoWindow THEN [fmt |-> "iso", t |-> now]
    ELSE IF now - qWindow[p].t > WindowHours * 3600 THEN [fmt |-> "iso", t |-> now]
    ELSE qWindow[p]

\* ... and the count it leaves behind
CountAfterEnsure(p) ==
    IF qWindow[p] = NoWindow THEN 0
    ELSE IF now - qWindow[p].t > WindowHours * 3600 THEN 0
    ELSE IF qCount[p] = NoCount THEN 0 ELSE qCount[p]

\* QuotaTracker.can_use on a count
CanUseCount(p, count, reserve_for_emergency) ==
    IF reserve_for_emergency THEN count < BufferLimit(p) ELSE count < Limit(p)

\* QuotaTracker.can_use: get_usage (which ensures the window), then the comparison
can_use(p, reserve_for_emergency) ==
    CanUseCount(p, CountAfterEnsure(p), reserve_for_emergency)

(***************************************************************************)
(* ProviderRouter (src/src/hekate/router.py).                              *)
(***************************************************************************)
_can_use_provider(p, emergency) ==
    IF ~HasQuota(p) THEN TRUE ELSE can_use(p, emergency)

\* usage["percentage"] < threshold, in integers: count / limit * 100 < threshold
BelowPercentage(p, threshold) ==
    IF ~HasQuota(p) THEN 0 < threshold
    ELSE CountAfterEnsure(p) * 100 < threshold * Limit(p)

_route_planning ==
    IF _can_use_provider("claude", FALSE) THEN "claude"
    ELSE IF _can_use_provider("openrouter", FALSE) THEN "openrouter"
    ELSE "glm"

_route_review ==
    IF _can_use_provider("claude", TRUE) THEN "claude" ELSE "glm"

_route_verification ==
    IF _can_use_provider("glm", FALSE) THEN "glm" ELSE "openrouter"

\* _route_implementation had the medium branch not looked at claude_conservative
_route_implementation_no_threshold(complexity) ==
    IF complexity = "complex"
    THEN IF _can_use_provider("claude", FALSE) THEN "claude" ELSE "glm"
    ELSE IF complexity = "medium"
    THEN IF _can_use_provider("claude", FALSE)
         THEN "claude"
         ELSE IF _can_use_provider("glm", FALSE) THEN "glm" ELSE "deepseek"
    ELSE "deepseek"

_route_implementation(complexity) ==
    IF complexity = "complex"
    THEN IF _can_use_provider("claude", FALSE) THEN "claude" ELSE "glm"
    ELSE IF complexity = "medium"
    THEN IF _can_use_provider("claude", FALSE) /\ BelowPercentage("claude", ClaudeConservative)
         THEN "claude"
         ELSE IF _can_use_provider("glm", FALSE) THEN "glm" ELSE "deepseek"
    ELSE "deepseek"

route_task(task) ==
    IF task.type = "planning" THEN _route_planning
    ELSE IF task.type = "review" THEN _route_review
    ELSE IF task.type = "verification" THEN _route_verification
    ELSE _route_implementation(task.complexity)

\* the providers whose tracker route_task consults (each consultation ensures
\* that provider's window)
Consulted(task) ==
    IF task.type = "planning" THEN {"claude"}
    ELSE IF task.type = "review" THEN {"claude"}
    ELSE IF task.type = "verification" THEN {"glm"}
    ELSE IF task.complexity = "complex" THEN {"claude"}
    ELSE IF task.complexity = "medium"
    THEN IF _can_use_provider("claude", FALSE) /\ BelowPercentage("claude", ClaudeConservative)
         THEN {"claude"} ELSE {"claude", "glm"}
    ELSE {}

\* the quota keys after route_task
RouteEffect(task) ==
    /\ qWindow' = [p \in Providers |->
                     IF p \in Consulted(task) THEN WindowAfterEnsure(p) ELSE qWindow[p]]
    /\ qCount' = [p \in Providers |->
                     IF p \in Consulted(task) THEN CountAfterEnsure(p) ELSE qCount[p]]

(***************************************************************************)
(* AgentManager (src/src/hekate/agent.py).                                 *)
(***************************************************************************)
\* agent_id = f"agent-{provider}-{int(time.time())}"
AgentId(provider) == [provider |-> provider, ts |-> now]
\* no agent id
NoAgent == [provider |-> NoKey, ts |-> NoCount]

(***************************************************************************)
(* The environment of a spawned child and what its session-start hook      *)
(* binds (src/src/hekate/agent.py, src/hooks/PostToolUse/spawn_agents.py,  *)
(* src/hooks/sessionstart_init.py).  An environment is a record of the     *)
(* variables the hooks read or the spawners set; NoKey: unset.             *)
(***************************************************************************)
\* the environment of a process started from a plain shell
PlainEnviron == [HEKATE_TASK_ID |-> NoKey, HEKATE_PROVIDER |-> NoKey,
                 TASK_ID |-> NoKey, AGENT_ID |-> NoAgent]

\* spawn_agent: env=dict(os.environ, TASK_ID=task_id, AGENT_ID=agent_id)
spawn_agent_env(environ, task_id, agent_id) ==
    [environ EXCEPT !.TASK_ID = task_id, !.AGENT_ID = agent_id]

\* spawn_agent_for_task: env = os.environ.copy(); env['HEKATE_TASK_ID'] = task_id;
\* env['HEKATE_PROVIDER'] = provider
spawn_agent_for_task_env(environ, task_id, provider) ==
    [environ EXCEPT !.HEKATE_TASK_ID = task_id, !.HEKATE_PROVIDER = provider]

\* no session key was written
NoBinding == [task_id |-> NoKey, provider |-> NoKey]

\* sessionstart_init.main: os.environ.get('HEKATE_TASK_ID'), `if not task_id: exit`,
\* SET session:<id>:task_id and session:<id>:provider
SessionBinding(environ) ==
    IF environ.HEKATE_TASK_ID = NoKey
    THEN NoBinding
    ELSE [task_id |-> environ.HEKATE_TASK_ID, provider |-> environ.HEKATE_PROVIDER]


\* AgentManager.get_agent_status
get_agent_status(s, a) ==
    IF a \notin DOMAIN agents[s] THEN NoKey
    ELSE IF agents[s][a] = "running"
    THEN IF HeartbeatExists(a) /\ now - heartbeat[a] < HeartbeatMaxAge
         THEN "running" ELSE "stale"
    ELSE IF agents[s][a] = "exit0" THEN "completed"
    ELSE "failed"

\* a child process of supervisor s ends: exit code 0, or not (killed, crashed)
AgentExit(s, a, st) ==
    /\ a \in DOMAIN agents[s]
    /\ agents[s][a] = "running"
    /\ agents' = [agents EXCEPT ![s][a] = st]
    /\ UNCHANGED <<owner, heartbeat, agentTask, isOwner, supPc, supCur, supIter,
                   pools, spawnCount, lastResult>>
    /\ UNCHANGED <<ready, quotaVars, clockVars, hookVars, toolVars>>

\* heartbeat_worker: one pass of the refresher thread over the agent map
HeartbeatWorker(s) ==
    /\ \E a \in DOMAIN agents[s] : agents[s][a] = "running" /\ heartbeat[a] # now
    /\ heartbeat' = [a \in DOMAIN heartbeat |->
                       IF a \in DOMAIN agents[s] /\ agents[s][a] = "running"
                       THEN now ELSE heartbeat[a]]
    /\ UNCHANGED <<owner, agentTask, isOwner, supPc, supCur, supIter, agents,
                   pools, spawnCount, lastResult>>
    /\ UNCHANGED <<ready, quotaVars, clockVars, hookVars, toolVars>>

(***************************************************************************)
(* Supervisor (src/src/hekate/supervisor.py).                              *)
(***************************************************************************)
PoolLen(s, p) == Len(pools[s][p])

TotalActive(s) ==
    PoolLen(s, "claude") + PoolLen(s, "glm") + PoolLen(s, "deepseek") + PoolLen(s, "openrouter")

TotalCapacity ==
    PoolSize("claude") + PoolSize("glm") + PoolSize("deepseek") + PoolSize("openrouter")

_can_assign_task(s) == TotalActive(s) < TotalCapacity

\* the filter had it let every task through
_is_task_claimed_never(t) == FALSE

_is_task_claimed(t) == OwnerExists(t)

\* the reply of a SET without NX: always set
ClaimWinsNoNx(t) == TRUE
\* the reply of SET key provider NX EX 3600: set, or nil
ClaimWins(t) == ~OwnerExists(t)

\* run_iteration up to the call of _assign_task: list, filter, capacity check
RunIteration(s) ==
    /\ supPc[s] = "idle"
    /\ supIter[s] < MaxIter
    /\ LET unclaimed == SelectSeq(ready, LAMBDA t : ~_is_task_claimed(t))
       IN IF unclaimed # <<>> /\ _can_assign_task(s)
          THEN /\ supPc' = [supPc EXCEPT ![s] = "claim"]
               /\ supCur' = [supCur EXCEPT ![s] = [task |-> Head(unclaimed), provider |-> NoKey]]
               /\ lastResult' = [lastResult EXCEPT ![s][Head(unclaimed)] = "running"]
          ELSE /\ supPc' = [supPc EXCEPT ![s] = "cleanup"]
               /\ UNCHANGED <<supCur, lastResult>>
    /\ UNCHANGED <<owner, heartbeat, agentTask, isOwner, supIter, agents, pools, spawnCount>>
    /\ UNCHANGED <<ready, quotaVars, clockVars, hookVars, toolVars>>

\* _assign_task: route_task, then _claim_task_in_redis
ClaimTaskInRedis(s) ==
    /\ supPc[s] = "claim"
    /\ LET t == supCur[s].task
           provider == route_task(TaskInfo(t))
       IN /\ RouteEffect(TaskInfo(t))
          /\ IF ClaimWins(t)
             THEN /\ owner' = [owner EXCEPT ![t] = [val |-> provider, at |-> now]]
                  /\ supCur' = [supCur EXCEPT ![s].provider = provider]
                  /\ supPc' = [supPc EXCEPT ![s] = "beads"]
                  /\ UNCHANGED lastResult
             ELSE /\ lastResult' = [lastResult EXCEPT ![s][t] = "conflict"]
                  /\ supPc' = [supPc EXCEPT ![s] = "cleanup"]
                  /\ UNCHANGED <<owner, supCur>>
    /\ UNCHANGED <<heartbeat, agentTask, isOwner, supIter, agents, pools, spawnCount>>
    /\ UNCHANGED <<ready, clockVars, hookVars, toolVars>>

\* _assign_task: beads.claim_task, whose exit code the tracker decides
ClaimTaskInBeads(s, ok) ==
    /\ supPc[s] = "beads"
    /\ IF ok
       THEN /\ isOwner' = [isOwner EXCEPT ![supCur[s].task] = supCur[s].provider]
            /\ supPc' = [supPc EXCEPT ![s] = "spawn"]
       ELSE /\ supPc' = [supPc EXCEPT ![s] = "unclaim"]
            /\ UNCHANGED isOwner
    /\ UNCHANGED <<owner, heartbeat, agentTask, supCur, supIter, agents, pools,
                   spawnCount, lastResult>>
    /\ UNCHANGED <<ready, quotaVars, clockVars, hookVars, toolVars>>

\* _assign_task had it returned after the tracker refused without the DEL
ReturnWithoutUnclaim(s) ==
    /\ supPc[s] = "unclaim"
    /\ lastResult' = [lastResult EXCEPT ![s][supCur[s].task] = "beads_failed"]
    /\ supPc' = [supPc EXCEPT ![s] = "cleanup"]
    /\ UNCHANGED <<owner, heartbeat, agentTask, isOwner, supCur, supIter, agents, pools, spawnCount>>
    /\ UNCHANGED <<ready, quotaVars, clockVars, hookVars, toolVars>>

\* _assign_task: _unclaim_task_in_redis after the tracker refused
UnclaimTaskInRedis(s) ==
    /\ supPc[s] = "unclaim"
    /\ owner' = [owner EXCEPT ![supCur[s].task] = NoOwner]
    /\ lastResult' = [lastResult EXCEPT ![s][supCur[s].task] = "beads_failed"]
    /\ supPc' = [supPc EXCEPT ![s] = "cleanup"]
    /\ UNCHANGED <<heartbeat, agentTask, isOwner, supCur, supIter, agents, pools, spawnCount>>
    /\ UNCHANGED <<ready, quotaVars, clockVars, hookVars, toolVars>>

\* _assign_task: agent_manager.spawn_agent and the append to the provider's pool
SpawnAgent(s) ==
    /\ supPc[s] = "spawn"
    /\ LET t == supCur[s].task
           p == supCur[s].provider
           a == AgentId(p)
       IN /\ agents' = [agents EXCEPT ![s] =
                          [x \in DOMAIN agents[s] \cup {a} |->
                             IF x = a THEN "running" ELSE agents[s][x]]]
          /\ heartbeat' = [x \in DOMAIN heartbeat \cup {a} |->
                             IF x = a THEN now ELSE heartbeat[x]]
          /\ agentTask' = [x \in DOMAIN agentTask \cup {a} |->
                             IF x = a THEN t ELSE agentTask[x]]
          /\ pools' = [pools EXCEPT ![s][p] = Append(pools[s][p], a)]
          /\ spawnCount' = [spawnCount EXCEPT ![t] = spawnCount[t] + 1]
          /\ lastResult' = [lastResult EXCEPT ![s][t] = "spawned"]
    /\ supPc' = [supPc EXCEPT ![s] = "cleanup"]
    /\ UNCHANGED <<owner, isOwner, supCur, supIter>>
    /\ UNCHANGED <<ready, quotaVars, clockVars, hookVars, toolVars>>

\* cleanup_completed_agents
CleanupCompletedAgents(s) ==
    /\ supPc[s] = "cleanup"
    /\ pools' = [pools EXCEPT ![s] =
                   [p \in Providers |->
                      SelectSeq(pools[s][p],
                                LAMBDA a : get_agent_status(s, a) \notin {"completed", "failed", "stale"})]]
    /\ supPc' = [supPc EXCEPT ![s] = "sleep"]
    /\ UNCHANGED <<owner, heartbeat, agentTask, isOwner, supCur, supIter, agents,
                   spawnCount, lastResult>>
    /\ UNCHANGED <<ready, quotaVars, clockVars, hookVars, toolVars>>

\* time.sleep(10) at the end of an iteration of run()
Sleep(s) ==
    /\ supPc[s] = "sleep"
    /\ now' = now + SleepSeconds
    /\ supIter' = [supIter EXCEPT ![s] = supIter[s] + 1]
    /\ supPc' = [supPc EXCEPT ![s] = "idle"]
    /\ UNCHANGED <<owner, heartbeat, agentTask, isOwner, supCur, agents, pools,
                   spawnCount, lastResult>>
    /\ UNCHANGED <<ready, quotaVars, ticks, hookVars, toolVars>>

\* a long time passes
Elapse ==
    /\ ticks < MaxTicks
    /\ now' = now + LongStep
    /\ ticks' = ticks + 1
    /\ UNCHANGED <<supVars, quotaVars, hookVars, toolVars>>

\* run_iteration when `bd ready --json` exits non-zero or prints no JSON:
\* subprocess.run(check=True) or json.loads raises, nothing between
\* list_ready_tasks and run() catches it, and run() ends
ListReadyRaises(s) ==
    /\ supPc[s] = "idle"
    /\ supIter[s] < MaxIter
    /\ supPc' = [supPc EXCEPT ![s] = "raised_list_ready_tasks"]
    /\ UNCHANGED <<owner, heartbeat, agentTask, isOwner, supCur, supIter, agents, pools,
                   spawnCount, lastResult>>
    /\ UNCHANGED <<ready, quotaVars, clockVars, hookVars, toolVars>>

\* _assign_task when subprocess.Popen raises in spawn_agent (no such command,
\* no such project directory): the exception leaves _assign_task,
\* run_iteration and run()
SpawnAgentRaises(s) ==
    /\ supPc[s] = "spawn"
    /\ supPc' = [supPc EXCEPT ![s] = "raised_spawn_agent"]
    /\ lastResult' = [lastResult EXCEPT ![s][supCur[s].task] = "spawn_failed"]
    /\ UNCHANGED <<owner, heartbeat, agentTask, isOwner, supCur, supIter, agents, pools,
                   spawnCount>>
    /\ UNCHANGED <<ready, quotaVars, clockVars, hookVars, toolVars>>

\* run() has ended
Ended(s) == supPc[s] \in {"raised_list_ready_tasks", "raised_spawn_agent", "stopped"}

\* KeyboardInterrupt in run(): _shutdown, kill_agent for every id in a pool
\* (terminate, DEL of the heartbeat and task keys, del self.agents[id])
Interrupt(s) ==
    /\ ~Ended(s)
    /\ LET killed == {a \in DOMAIN agents[s] :
                        \E p \in Providers : \E i \in DOMAIN pools[s][p] : pools[s][p][i] = a}
       IN /\ agents' = [agents EXCEPT ![s] = [a \in DOMAIN agents[s] \ killed |-> agents[s][a]]]
          /\ heartbeat' = [a \in DOMAIN heartbeat \ killed |-> heartbeat[a]]
          /\ agentTask' = [a \in DOMAIN agentTask \ killed |-> agentTask[a]]
    /\ supPc' = [supPc EXCEPT ![s] = "stopped"]
    /\ UNCHANGED <<owner, isOwner, supCur, supIter, pools, spawnCount, lastResult>>
    /\ UNCHANGED <<ready, quotaVars, clockVars, hookVars, toolVars>>

\* heartbeat_worker, a daemon thread of the supervisor's process
HeartbeatWorkerAlive(s) == ~Ended(s) /\ HeartbeatWorker(s)

\* time.sleep(30) of heartbeat_worker
HeartbeatPeriod == 30

\* a heartbeat thread that wakes and refreshes nothing
HeartbeatRoundNoSetex(s) ==
    /\ now = beatAt + HeartbeatPeriod
    /\ beatAt' = now
    /\ UNCHANGED <<supVars, quotaVars, clockVars, hookVars>>
    /\ UNCHANGED <<trackVars, verifyVars, patternVars, toolSession>>
    /\ UNCHANGED <<rtVars, memVars, ctxVars, winVars, killVars, envVars, keyVars>>

\* heartbeat_worker on schedule: 30 s after its last round it goes through the
\* agent map and SETEXes the heartbeat of every child whose poll() is None
HeartbeatRound(s) ==
    /\ now = beatAt + HeartbeatPeriod
    /\ beatAt' = now
    /\ heartbeat' = [a \in DOMAIN heartbeat |->
                       IF a \in DOMAIN agents[s] /\ agents[s][a] = "running"
                       THEN now ELSE heartbeat[a]]
    /\ UNCHANGED <<owner, agentTask, isOwner, supPc, supCur, supIter, agents,
                   pools, spawnCount, lastResult>>
    /\ UNCHANGED <<ready, quotaVars, clockVars, hookVars>>
    /\ UNCHANGED <<trackVars, verifyVars, patternVars, toolSession>>
    /\ UNCHANGED <<rtVars, memVars, ctxVars, winVars, killVars, envVars, keyVars>>

\* the scheduler thread's time.sleep(10), the heartbeat thread waking when due
SleepBeat(s) ==
    /\ now + SleepSeconds <= beatAt + HeartbeatPeriod
    /\ Sleep(s)

\* ten more seconds pass, the heartbeat thread waking when due
ElapseBeat ==
    /\ now < MaxBeatTime
    /\ now + SleepSeconds <= beatAt + HeartbeatPeriod
    /\ now' = now + SleepSeconds
    /\ UNCHANGED <<supVars, quotaVars, ticks, hookVars, toolVars>>

NextBeat ==
    \/ RunIteration("s1")
    \/ ClaimTaskInRedis("s1")
    \/ \E ok \in BOOLEAN : ClaimTaskInBeads("s1", ok)
    \/ UnclaimTaskInRedis("s1")
    \/ SpawnAgent("s1")
    \/ CleanupCompletedAgents("s1")
    \/ SleepBeat("s1")
    \/ ElapseBeat
    \/ HeartbeatRound("s1")
    \/ \E a \in DOMAIN agents["s1"] : AgentExit("s1", a, "exit0")

\* kill_agent up to the end of the waiting: the look-up in the agent map,
\* process.terminate(), wait(timeout=10), kill() and wait() if that ran out.
\* It is _shutdown that calls it, after the interrupt has ended the loop.
KillAgentTerminate(s, a) ==
    /\ killPc = NoAgent
    /\ supPc[s] \notin {"raised_list_ready_tasks", "raised_spawn_agent"}
    /\ a \in DOMAIN agents[s]
    /\ agents' = [agents EXCEPT ![s][a] = IF @ = "running" THEN "killed" ELSE @]
    /\ supPc' = [supPc EXCEPT ![s] = "stopped"]
    /\ killPc' = a
    /\ UNCHANGED <<owner, heartbeat, agentTask, isOwner, supCur, supIter, pools,
                   spawnCount, lastResult>>
    /\ UNCHANGED <<ready, quotaVars, clockVars, hookVars>>
    /\ UNCHANGED <<trackVars, verifyVars, patternVars, toolSession>>
    /\ UNCHANGED <<rtVars, memVars, ctxVars, beatVars, winVars, hbPolled, killDone,
                   envVars, keyVars>>

\* kill_agent: DELETE the heartbeat and task keys, del self.agents[agent_id],
\* return True
KillAgentCleanup(s) ==
    /\ killPc # NoAgent
    /\ heartbeat' = [a \in DOMAIN heartbeat \ {killPc} |-> heartbeat[a]]
    /\ agentTask' = [a \in DOMAIN agentTask \ {killPc} |-> agentTask[a]]
    /\ agents' = [agents EXCEPT ![s] = [a \in DOMAIN agents[s] \ {killPc} |-> agents[s][a]]]
    /\ killDone' = killDone \cup {killPc}
    /\ killPc' = NoAgent
    /\ UNCHANGED <<owner, isOwner, supPc, supCur, supIter, pools, spawnCount, lastResult>>
    /\ UNCHANGED <<ready, quotaVars, clockVars, hookVars>>
    /\ UNCHANGED <<trackVars, verifyVars, patternVars, toolSession>>
    /\ UNCHANGED <<rtVars, memVars, ctxVars, beatVars, winVars, hbPolled,
                   envVars, keyVars>>

\* heartbeat_worker, one agent of its loop: `if process.poll() is None`
WorkerPoll(s, a) ==
    /\ hbPolled = NoAgent
    /\ a \in DOMAIN agents[s]
    /\ agents[s][a] = "running"
    /\ hbPolled' = a
    /\ UNCHANGED <<supVars, quotaVars, clockVars, hookVars>>
    /\ UNCHANGED <<trackVars, verifyVars, patternVars, toolSession>>
    /\ UNCHANGED <<rtVars, memVars, ctxVars, beatVars, winVars, killPc, killDone,
                   envVars, keyVars>>

\* heartbeat_worker, the same agent: update_heartbeat, SETEX heartbeat 90 now
WorkerSetex(s) ==
    /\ hbPolled # NoAgent
    /\ hbPolled' = NoAgent
    /\ heartbeat' = [a \in DOMAIN heartbeat \cup {hbPolled} |->
                       IF a = hbPolled THEN now ELSE heartbeat[a]]
    /\ UNCHANGED <<owner, agentTask, isOwner, supPc, supCur, supIter, agents,
                   pools, spawnCount, lastResult>>
    /\ UNCHANGED <<ready, quotaVars, clockVars, hookVars>>
    /\ UNCHANGED <<trackVars, verifyVars, patternVars, toolSession>>
    /\ UNCHANGED <<rtVars, memVars, ctxVars, beatVars, winVars, killPc, killDone,
                   envVars, keyVars>>

NextKill ==
    \/ RunIteration("s1")
    \/ ClaimTaskInRedis("s1")
    \/ \E ok \in BOOLEAN : ClaimTaskInBeads("s1", ok)
    \/ UnclaimTaskInRedis("s1")
    \/ SpawnAgent("s1")
    \/ CleanupCompletedAgents("s1")
    \/ Sleep("s1")
    \/ \E a \in DOMAIN agents["s1"] : AgentExit("s1", a, "exit0")
    \/ \E a \in DOMAIN agents["s1"] : KillAgentTerminate("s1", a)
    \/ KillAgentCleanup("s1")
    \/ \E a \in DOMAIN agents["s1"] : WorkerPoll("s1", a)
    \/ WorkerSetex("s1")

(***************************************************************************)
(* The session of a child of the AgentManager: its session-start hook      *)
(* (src/hooks/sessionstart_init.py) run in the environment spawn_agent     *)
(* gave it.                                                                *)
(***************************************************************************)
\* the environments a supervisor is started in: a plain shell, or a shell
\* that still exports the variables of an earlier task
Environs == {PlainEnviron} \cup
            {[PlainEnviron EXCEPT !.HEKATE_TASK_ID = "T3", !.HEKATE_PROVIDER = "glm"]}

InitEnviron == supEnviron = PlainEnviron /\ agSession = <<>>
InitEnvironAny == supEnviron \in Environs /\ agSession = <<>>

\* sessionstart_init.main in the child of agent a
AgentSessionStart(s, a) ==
    /\ a \in DOMAIN agents[s]
    /\ agents[s][a] = "running"
    /\ a \in DOMAIN agentTask
    /\ a \notin DOMAIN agSession
    /\ agSession' = [x \in DOMAIN agSession \cup {a} |->
                       IF x = a
                       THEN SessionBinding(spawn_agent_env(supEnviron, agentTask[a], a))
                       ELSE agSession[x]]
    /\ UNCHANGED <<supVars, quotaVars, clockVars, hookVars>>
    /\ UNCHANGED <<trackVars, verifyVars, patternVars, toolSession>>
    /\ UNCHANGED <<rtVars, memVars, ctxVars, beatVars, winVars, killVars, supEnviron, keyVars>>

SupStep(s) ==
    \/ RunIteration(s)
    \/ ClaimTaskInRedis(s)
    \/ \E ok \in BOOLEAN : ClaimTaskInBeads(s, ok)
    \/ UnclaimTaskInRedis(s)
    \/ SpawnAgent(s)
    \/ CleanupCompletedAgents(s)
    \/ Sleep(s)
    \/ HeartbeatWorker(s)
    \/ \E a \in DOMAIN agents[s] : \E st \in {"exit0", "failed"} : AgentExit(s, a, st)

(***************************************************************************)
(* The epic hooks: user-prompt-submit/decompose, post-tool-use/spawn-agents, *)
(* session-start and post-tool-use/complete-task.  Each hook run is its    *)
(* own short-lived process; they meet only in the coordination store and   *)
(* the issue store.                                                        *)
(***************************************************************************)
Epics == {"E1"}
Hooks == {"h1", "h2"}
TaskIds == <<"T1", "T2", "T3">>

\* the complexity the decomposition answer gives each task
DecomposeComplexity(t) == IF t = "T1" THEN 3 ELSE 6

\* provider_limits of the spawn-agents hook
ProviderLimit(p) ==
    CASE p = "claude" -> 2
      [] p = "glm" -> 4
      [] p = "deepseek" -> 6
      [] p = "openrouter" -> 2
      [] OTHER -> 2

InitHook ==
    /\ epicStatus = [e \in Epics |-> NoKey]
    /\ epicTaskCount = [e \in Epics |-> NoCount]
    /\ epicCompleteCount = [e \in Epics |-> NoCount]
    /\ bdStatus = [t \in Tasks |-> NoKey]
    /\ taskEpic = [t \in Tasks |-> NoKey]
    /\ taskStatus = [t \in Tasks |-> NoKey]
    /\ taskClaimed = [t \in Tasks |-> NoKey]
    /\ taskProvider = [t \in Tasks |-> NoKey]
    /\ taskComplexity = [t \in Tasks |-> NoCount]
    /\ taskSessionPid = [t \in Tasks |-> 0]
    /\ procs = <<>>
    /\ sessionTask = <<>>
    /\ hPc = [h \in Hooks |-> "idle"]
    /\ hPending = [h \in Hooks |-> <<>>]
    /\ hCounts = [h \in Hooks |-> [p \in Providers \cup {"auto"} |-> 0]]
    /\ hRuns = [h \in Hooks |-> 0]
    /\ hookAgentTask = <<>>
    /\ hookHeartbeat = <<>>
    /\ claimedAt = [t \in Tasks |-> NoCount]
    /\ banners = 0
    /\ commits = 0

\* userpromptsubmit_decompose.main from the epic's initialisation on: the answer
\* holds n tasks, and `bd create` succeeds for those in `created`
Decompose(e, n, created) ==
    /\ epicStatus[e] = NoKey
    /\ epicStatus' = [epicStatus EXCEPT ![e] = "active"]
    /\ epicTaskCount' = [epicTaskCount EXCEPT ![e] = n]
    /\ epicCompleteCount' = [epicCompleteCount EXCEPT ![e] = 0]
    /\ bdStatus' = [t \in Tasks |-> IF t \in created THEN "open" ELSE bdStatus[t]]
    /\ taskComplexity' = [t \in Tasks |->
                            IF t \in created THEN DecomposeComplexity(t) ELSE taskComplexity[t]]
    /\ taskEpic' = [t \in Tasks |-> IF t \in created THEN e ELSE taskEpic[t]]
    /\ taskStatus' = [t \in Tasks |-> IF t \in created THEN "pending" ELSE taskStatus[t]]
    \* GET routing:complexity:<c>, a key nothing writes: the default, "auto"
    /\ taskProvider' = [t \in Tasks |-> IF t \in created THEN "auto" ELSE taskProvider[t]]
    /\ UNCHANGED <<taskClaimed, taskSessionPid, procs, sessionTask, hPc, hPending,
                   hCounts, hRuns, claimedAt, banners, commits>>
    /\ UNCHANGED <<hookAgentTask, hookHeartbeat>>
    /\ UNCHANGED <<supVars, quotaVars, clockVars, toolVars>>

\* spawn_agents.main up to the spawning loop: after a `bd create`, the pending
\* unclaimed tasks of the active epic
PendingTasks(e) ==
    SelectSeq(TaskIds,
              LAMBDA t : /\ t \in Tasks
                         /\ bdStatus[t] # NoKey
                         /\ taskEpic[t] = e
                         /\ taskClaimed[t] # "true"
                         /\ bdStatus[t] \in {"open", "pending"})

HookStart(h, e) ==
    /\ hPc[h] = "idle"
    /\ hRuns[h] < MaxHookRuns
    /\ hRuns' = [hRuns EXCEPT ![h] = hRuns[h] + 1]
    /\ hCounts' = [hCounts EXCEPT ![h] = [p \in Providers \cup {"auto"} |-> 0]]
    /\ IF epicStatus[e] = "active" /\ PendingTasks(e) # <<>>
       THEN /\ hPending' = [hPending EXCEPT ![h] = PendingTasks(e)]
            /\ hPc' = [hPc EXCEPT ![h] = "spawn"]
       ELSE /\ hPending' = [hPending EXCEPT ![h] = <<>>]
            /\ hPc' = [hPc EXCEPT ![h] = "idle"]
    /\ UNCHANGED <<epicStatus, epicTaskCount, epicCompleteCount, bdStatus, taskEpic,
                   taskStatus, taskClaimed, taskProvider, taskComplexity, taskSessionPid,
                   procs, sessionTask, claimedAt, banners, commits>>
    /\ UNCHANGED <<hookAgentTask, hookHeartbeat>>
    /\ UNCHANGED <<supVars, quotaVars, clockVars, toolVars>>

\* the rest of the loop after the head task is done with
HookAdvance(h) ==
    IF Len(hPending[h]) > 1
    THEN /\ hPending' = [hPending EXCEPT ![h] = Tail(hPending[h])]
         /\ hPc' = [hPc EXCEPT ![h] = "spawn"]
    ELSE /\ hPending' = [hPending EXCEPT ![h] = <<>>]
         /\ hPc' = [hPc EXCEPT ![h] = "idle"]

\* spawn_agents.main, one task of the loop: the provider limit, spawn_agent_for_task
\* (ok: the worktree could be made and the child started) and the agent's keys
HookSpawn(h, ok) ==
    /\ hPc[h] = "spawn"
    /\ LET t == Head(hPending[h])
           p == taskProvider[t]
           pid == Len(procs) + 1
       IN IF hCounts[h][p] >= ProviderLimit(p) \/ ~ok
          THEN /\ HookAdvance(h)
               /\ UNCHANGED <<procs, hookAgentTask, hookHeartbeat, sessionTask>>
          ELSE /\ procs' = Append(procs, [task |-> t, provider |-> p, alive |-> TRUE,
                                          cpc |-> "idle", cnew |-> 0, cwas |-> NoKey])
               /\ hookAgentTask' = Append(hookAgentTask, t)
               /\ hookHeartbeat' = Append(hookHeartbeat, now)
               /\ sessionTask' = Append(sessionTask, NoKey)
               /\ hPc' = [hPc EXCEPT ![h] = "mark"]
               /\ UNCHANGED hPending
    /\ UNCHANGED <<epicStatus, epicTaskCount, epicCompleteCount, bdStatus, taskEpic,
                   taskStatus, taskClaimed, taskProvider, taskComplexity, taskSessionPid,
                   hCounts, hRuns, claimedAt, banners, commits>>
    /\ UNCHANGED <<supVars, quotaVars, clockVars, toolVars>>

\* what the hook writes to task:<id>:status after the spawn
SpawnedStatus(t) == "in_progress"

\* spawn_agents.main, the same task: mark it claimed, in_progress, count it
HookMark(h) ==
    /\ hPc[h] = "mark"
    /\ LET t == Head(hPending[h])
           p == taskProvider[t]
       IN /\ taskClaimed' = [taskClaimed EXCEPT ![t] = "true"]
          /\ claimedAt' = [claimedAt EXCEPT ![t] = now]
          /\ taskSessionPid' = [taskSessionPid EXCEPT ![t] = Len(procs)]
          /\ taskStatus' = [taskStatus EXCEPT ![t] = SpawnedStatus(t)]
          /\ bdStatus' = [bdStatus EXCEPT ![t] = "in_progress"]
          /\ hCounts' = [hCounts EXCEPT ![h][p] = hCounts[h][p] + 1]
    /\ HookAdvance(h)
    /\ UNCHANGED <<epicStatus, epicTaskCount, epicCompleteCount, taskEpic, taskProvider,
                   taskComplexity, procs, sessionTask, hRuns, banners, commits>>
    /\ UNCHANGED <<hookAgentTask, hookHeartbeat>>
    /\ UNCHANGED <<supVars, quotaVars, clockVars, toolVars>>

\* sessionstart_init.main in the child: bind the session to HEKATE_TASK_ID
SessionStart(pid) ==
    /\ pid \in DOMAIN procs
    /\ procs[pid].alive
    /\ sessionTask[pid] = NoKey
    /\ sessionTask' = [sessionTask EXCEPT ![pid] =
                          SessionBinding(spawn_agent_for_task_env(
                              PlainEnviron, procs[pid].task, procs[pid].provider)).task_id]
    /\ UNCHANGED <<epicStatus, epicTaskCount, epicCompleteCount, bdStatus, taskEpic,
                   taskStatus, taskClaimed, taskProvider, taskComplexity, taskSessionPid,
                   procs, hPc, hPending, hCounts, hRuns, claimedAt, banners, commits>>
    /\ UNCHANGED <<hookAgentTask, hookHeartbeat>>
    /\ UNCHANGED <<supVars, quotaVars, clockVars, toolVars>>

SessionTaskOf(pid) == sessionTask[pid]

\* complete_task.main after a `git commit` or `git push` of the session: the
\* task's epic, `bd close`, SET task:<id>:status complete
\* (cwas remembers the task status this firing found, cnew its INCR reply)
CompleteTaskClose(pid) ==
    /\ pid \in DOMAIN procs
    /\ procs[pid].alive
    /\ procs[pid].cpc = "idle"
    /\ commits < MaxCommits
    /\ commits' = commits + 1
    /\ SessionTaskOf(pid) # NoKey
    /\ LET t == SessionTaskOf(pid)
       IN IF taskEpic[t] = NoKey
          THEN UNCHANGED <<procs, bdStatus, taskStatus>>
          ELSE /\ procs' = [procs EXCEPT ![pid].cpc = "incr", ![pid].cwas = taskStatus[t]]
               /\ bdStatus' = [bdStatus EXCEPT ![t] = "closed"]
               /\ taskStatus' = [taskStatus EXCEPT ![t] = "complete"]
    /\ UNCHANGED <<epicStatus, epicTaskCount, epicCompleteCount, taskEpic, taskClaimed,
                   taskProvider, taskComplexity, taskSessionPid, sessionTask, hPc,
                   hPending, hCounts, hRuns, claimedAt, banners>>
    /\ UNCHANGED <<hookAgentTask, hookHeartbeat>>
    /\ UNCHANGED <<supVars, quotaVars, clockVars, toolVars>>

\* complete_task.main: INCR epic:<id>:complete_count
CompleteTaskIncr(pid) ==
    /\ pid \in DOMAIN procs
    /\ procs[pid].cpc = "incr"
    /\ LET e == taskEpic[SessionTaskOf(pid)]
           new == (IF epicCompleteCount[e] = NoCount THEN 0 ELSE epicCompleteCount[e]) + 1
       IN /\ epicCompleteCount' = [epicCompleteCount EXCEPT ![e] = new]
          /\ procs' = [procs EXCEPT ![pid].cnew = new, ![pid].cpc = "check"]
    /\ UNCHANGED <<epicStatus, epicTaskCount, bdStatus, taskEpic, taskStatus, taskClaimed,
                   taskProvider, taskComplexity, taskSessionPid, sessionTask, hPc,
                   hPending, hCounts, hRuns, claimedAt, banners, commits>>
    /\ UNCHANGED <<hookAgentTask, hookHeartbeat>>
    /\ UNCHANGED <<supVars, quotaVars, clockVars, toolVars>>

\* complete_task.main: GET task_count, and the epic's completion when reached
EpicIsComplete(new, task_count) == new # 0 /\ task_count # 0 /\ new >= task_count

CompleteTaskCheck(pid) ==
    /\ pid \in DOMAIN procs
    /\ procs[pid].cpc = "check"
    /\ LET e == taskEpic[SessionTaskOf(pid)]
           task_count == IF epicTaskCount[e] = NoCount THEN 0 ELSE epicTaskCount[e]
       IN IF EpicIsComplete(procs[pid].cnew, task_count)
          THEN /\ epicStatus' = [epicStatus EXCEPT ![e] = "complete"]
               /\ banners' = banners + 1
          ELSE UNCHANGED <<epicStatus, banners>>
    /\ procs' = [procs EXCEPT ![pid].cpc = "idle"]
    /\ UNCHANGED <<epicTaskCount, epicCompleteCount, bdStatus, taskEpic, taskStatus,
                   taskClaimed, taskProvider, taskComplexity, taskSessionPid, sessionTask,
                   hPc, hPending, hCounts, hRuns, claimedAt, commits>>
    /\ UNCHANGED <<hookAgentTask, hookHeartbeat>>
    /\ UNCHANGED <<supVars, quotaVars, clockVars, toolVars>>

\* the child of a spawn-agents hook ends before another tool use
HookAgentDies(pid) ==
    /\ pid \in DOMAIN procs
    /\ procs[pid].alive
    /\ procs[pid].cpc = "idle"
    /\ procs' = [procs EXCEPT ![pid].alive = FALSE]
    /\ UNCHANGED <<epicStatus, epicTaskCount, epicCompleteCount, bdStatus, taskEpic,
                   taskStatus, taskClaimed, taskProvider, taskComplexity, taskSessionPid,
                   sessionTask, hPc, hPending, hCounts, hRuns, claimedAt, banners, commits>>
    /\ UNCHANGED <<hookAgentTask, hookHeartbeat>>
    /\ UNCHANGED <<supVars, quotaVars, clockVars, toolVars>>

ElapseHook ==
    /\ ticks < MaxTicks
    /\ now' = now + LongStep
    /\ ticks' = ticks + 1
    /\ UNCHANGED <<hookVars, supVars, quotaVars, toolVars>>

DecomposeStep ==
    \E e \in Epics : \E n \in 1..MaxEpicTasks :
       \E created \in SUBSET {TaskIds[i] : i \in 1..n} : Decompose(e, n, created)

SpawnHookStep(h) ==
    \/ \E e \in Epics : HookStart(h, e)
    \/ \E ok \in BOOLEAN : HookSpawn(h, ok)
    \/ HookMark(h)

SessionStep(pid) ==
    \/ SessionStart(pid)
    \/ CompleteTaskClose(pid)
    \/ CompleteTaskIncr(pid)
    \/ CompleteTaskCheck(pid)
    \/ HookAgentDies(pid)

\* concurrent spawn-agents hook runs and the sessions they start
NextHook ==
    \/ DecomposeStep
    \/ \E h \in Hooks : SpawnHookStep(h)
    \/ \E pid \in DOMAIN procs : SessionStep(pid)

\* one spawn-agents hook run at a time, over a long time
NextHookTtl ==
    \/ DecomposeStep
    \/ SpawnHookStep("h1")
    \/ \E pid \in DOMAIN procs : SessionStep(pid)
    \/ ElapseHook

(***************************************************************************)
(* The session whose tool calls the per-tool hooks see                     *)
(* (src/hooks/sessionstart_init.py).                                       *)
(***************************************************************************)
InitSession == toolSession = NoKey

\* sessionstart_init.main with HEKATE_TASK_ID = t in the environment
ToolSessionStart(t) ==
    /\ toolSession = NoKey
    /\ toolSession' = t
    /\ UNCHANGED <<trackVars, verifyVars, patternVars, routeVars>>
    /\ UNCHANGED <<supVars, quotaVars, clockVars, hookVars>>

(***************************************************************************)
(* Callers of QuotaTracker (src/src/hekate/quota.py), command by command,  *)
(* and runs of the pre-tool-use router hook (src/hooks/PreToolUse/         *)
(* router.py) on the same quota keys.                                      *)
(***************************************************************************)
Trackers == {"q1"}
\* QuotaTracker instances of two processes on the same provider
Callers == {"q1", "q2"}
Routers == {"r1"}
\* the provider of the tracker instances and of the session's task
TrackedProvider == "claude"
\* the calls a caller makes: increment(), can_use(False), can_use(True)
TrackerOps ==
    {[name |-> "increment", flag |-> FALSE],
     [name |-> "can_use", flag |-> FALSE],
     [name |-> "can_use", flag |-> TRUE]}
NoOp == [name |-> NoKey, flag |-> FALSE]
NoReturn == [count |-> NoCount, flag |-> FALSE, result |-> FALSE]

\* quota:<p>:limit is written by nobody: the defaults of the hook's GETs
HookDefaultLimit == 50
HookAltDefaultLimit == 100
HookWindowSeconds == 86400
HookAlternatives == <<"deepseek", "glm", "openrouter", "claude">>

\* GET quota:<p>:count, absent read as 0
CountRead(p) == IF qCount[p] = NoCount THEN 0 ELSE qCount[p]

InitTrack ==
    /\ tPc = [q \in Callers |-> "idle"]
    /\ tOp = [q \in Callers |-> NoOp]
    /\ tReturn = [q \in Callers |-> NoReturn]
    /\ rPc = [r \in Routers |-> "idle"]
    /\ rAssigned = [r \in Routers |-> NoKey]
    /\ rHeartbeat = [r \in Routers |-> NoCount]

\* a caller enters increment() or can_use(flag)
TrackerCall(q, op) ==
    /\ tPc[q] = "idle"
    /\ op.name = "increment" => qCount[TrackedProvider] < MaxCount
    /\ tPc' = [tPc EXCEPT ![q] = "ensure"]
    /\ tOp' = [tOp EXCEPT ![q] = op]
    /\ tReturn' = [tReturn EXCEPT ![q] = NoReturn]
    /\ UNCHANGED <<rPc, rAssigned, rHeartbeat>>
    /\ UNCHANGED <<supVars, quotaVars, clockVars, hookVars, verifyVars, patternVars, toolSession, routeVars>>

\* the stored window is absent or older than window_hours
WindowOver(w) == w = NoWindow \/ (w.fmt = "iso" /\ now - w.t > WindowHours * 3600)

\* _ensure_window: GET window_start and the decision to open a new window;
\* a window_start that is not an ISO string makes fromisoformat raise
TrackerEnsureRead(q) ==
    /\ tPc[q] = "ensure"
    /\ LET w == qWindow[TrackedProvider] IN
         IF w = NoWindow THEN tPc' = [tPc EXCEPT ![q] = "setwin"] /\ UNCHANGED tOp
         ELSE IF w.fmt # "iso" THEN tPc' = [tPc EXCEPT ![q] = "idle"] /\ tOp' = [tOp EXCEPT ![q] = NoOp]
         ELSE IF now - w.t > WindowHours * 3600
              THEN tPc' = [tPc EXCEPT ![q] = "setwin"] /\ UNCHANGED tOp
              ELSE tPc' = [tPc EXCEPT ![q] = "act"] /\ UNCHANGED tOp
    /\ UNCHANGED <<tReturn, rPc, rAssigned, rHeartbeat>>
    /\ UNCHANGED <<supVars, quotaVars, clockVars, hookVars, verifyVars, patternVars, toolSession, routeVars>>

\* _ensure_window: SET window_start now.isoformat()
TrackerSetWindow(q) ==
    /\ tPc[q] = "setwin"
    /\ qWindow' = [qWindow EXCEPT ![TrackedProvider] = [fmt |-> "iso", t |-> now]]
    /\ winIncrs' = IF WindowOver(qWindow[TrackedProvider]) THEN 0 ELSE winIncrs
    /\ tPc' = [tPc EXCEPT ![q] = "setcount"]
    /\ UNCHANGED <<tOp, tReturn, rPc, rAssigned, rHeartbeat, qCount>>
    /\ UNCHANGED <<supVars, clockVars, hookVars, verifyVars, patternVars, toolSession>>
    /\ UNCHANGED <<rtVars, memVars, ctxVars, beatVars, killVars, envVars, keyVars>>

\* _ensure_window had it opened the new window without the SET count 0
TrackerKeepCount(q) ==
    /\ tPc[q] = "setcount"
    /\ tPc' = [tPc EXCEPT ![q] = "act"]
    /\ UNCHANGED <<tOp, tReturn, rPc, rAssigned, rHeartbeat, qWindow, qCount>>
    /\ UNCHANGED <<supVars, clockVars, hookVars, verifyVars, patternVars, toolSession, routeVars>>

\* _ensure_window: SET count 0
TrackerSetCount(q) ==
    /\ tPc[q] = "setcount"
    /\ qCount' = [qCount EXCEPT ![TrackedProvider] = 0]
    /\ tPc' = [tPc EXCEPT ![q] = "act"]
    /\ UNCHANGED <<tOp, tReturn, rPc, rAssigned, rHeartbeat, qWindow>>
    /\ UNCHANGED <<supVars, clockVars, hookVars, verifyVars, patternVars, toolSession, routeVars>>

\* increment: INCR count
TrackerIncrement(q) ==
    /\ tPc[q] = "act"
    /\ tOp[q].name = "increment"
    /\ qCount' = [qCount EXCEPT ![TrackedProvider] = CountRead(TrackedProvider) + 1]
    /\ winIncrs' = winIncrs + 1
    /\ tPc' = [tPc EXCEPT ![q] = "idle"]
    /\ tOp' = [tOp EXCEPT ![q] = NoOp]
    /\ UNCHANGED <<tReturn, rPc, rAssigned, rHeartbeat, qWindow>>
    /\ UNCHANGED <<supVars, clockVars, hookVars, verifyVars, patternVars, toolSession>>
    /\ UNCHANGED <<rtVars, memVars, ctxVars, beatVars, killVars, envVars, keyVars>>

\* can_use: get_usage's GET count, then the comparison
TrackerCanUse(q) ==
    /\ tPc[q] = "act"
    /\ tOp[q].name = "can_use"
    /\ LET count == CountRead(TrackedProvider) IN
         tReturn' = [tReturn EXCEPT ![q] =
                        [count |-> count, flag |-> tOp[q].flag,
                         result |-> CanUseCount(TrackedProvider, count, tOp[q].flag)]]
    /\ tPc' = [tPc EXCEPT ![q] = "idle"]
    /\ tOp' = [tOp EXCEPT ![q] = NoOp]
    /\ UNCHANGED <<rPc, rAssigned, rHeartbeat>>
    /\ UNCHANGED <<supVars, quotaVars, clockVars, hookVars, verifyVars, patternVars, toolSession, routeVars>>

\* the fallback loop of the hook: the first other provider below its limit
FirstAlternative(assigned) ==
    LET open == {i \in 1..Len(HookAlternatives) :
                    /\ HookAlternatives[i] # assigned
                    /\ CountRead(HookAlternatives[i]) < HookAltDefaultLimit}
    IN IF open = {} THEN assigned
       ELSE HookAlternatives[CHOOSE i \in open : \A j \in open : i <= j]

\* the hook up to its INCR: the GETs of count, limit and window_start, the window
\* reset, the fallback loop.  int(window_start) raises on an ISO string and the
\* run ends there.
RouterRead(r) ==
    /\ rPc[r] \in {"idle", "failed"}
    /\ toolSession # NoKey
    /\ \A p \in Providers : qCount[p] < MaxCount
    /\ LET assigned == TrackedProvider
           w == qWindow[assigned]
           expired == w # NoWindow /\ w.fmt = "int" /\ now - w.t > HookWindowSeconds
           quota_count == IF expired THEN 0 ELSE CountRead(assigned)
       IN IF w # NoWindow /\ w.fmt # "int"
          THEN /\ rPc' = [rPc EXCEPT ![r] = "failed"]
               /\ UNCHANGED <<rAssigned, quotaVars>>
          ELSE /\ rPc' = [rPc EXCEPT ![r] = "incr"]
               /\ IF expired
                  THEN /\ qCount' = [qCount EXCEPT ![assigned] = 0]
                       /\ qWindow' = [qWindow EXCEPT ![assigned] = [fmt |-> "int", t |-> now]]
                  ELSE UNCHANGED quotaVars
               /\ rAssigned' = [rAssigned EXCEPT ![r] =
                                  IF quota_count >= HookDefaultLimit
                                  THEN FirstAlternative(assigned) ELSE assigned]
    /\ UNCHANGED <<tPc, tOp, tReturn, rHeartbeat>>
    /\ UNCHANGED <<supVars, clockVars, hookVars, verifyVars, patternVars, toolSession, routeVars>>

\* INCR quota:<assigned_provider>:count, then the heartbeat of the hook's process
RouterIncr(r) ==
    /\ rPc[r] = "incr"
    /\ qCount' = [qCount EXCEPT ![rAssigned[r]] = CountRead(rAssigned[r]) + 1]
    /\ rHeartbeat' = [rHeartbeat EXCEPT ![r] = now]
    /\ rPc' = [rPc EXCEPT ![r] = "idle"]
    /\ UNCHANGED <<tPc, tOp, tReturn, rAssigned, qWindow>>
    /\ UNCHANGED <<supVars, clockVars, hookVars, verifyVars, patternVars, toolSession, routeVars>>

\* more than a quota window passes
ElapseWindow ==
    /\ ticks < MaxTicks
    /\ now' = now + WindowHours * 3600 + LongStep
    /\ ticks' = ticks + 1
    /\ UNCHANGED <<hookVars, supVars, quotaVars, toolVars>>

TrackerStep(q) ==
    \/ \E op \in TrackerOps : TrackerCall(q, op)
    \/ TrackerEnsureRead(q)
    \/ TrackerSetWindow(q)
    \/ TrackerSetCount(q)
    \/ TrackerIncrement(q)
    \/ TrackerCanUse(q)

NextQuota ==
    \/ ToolSessionStart("T1")
    \/ \E q \in Trackers : TrackerStep(q)
    \/ \E r \in Routers : RouterRead(r) \/ RouterIncr(r)
    \/ ElapseWindow

(***************************************************************************)
(* The verification hooks (src/hooks/PostToolUse/verify_prefetch.py,       *)
(* src/hooks/PreToolUse/verify_inject.py).                                 *)
(***************************************************************************)
SlotTTL == 600
InjectAge == 30
VerifyTasks == {"T1", "T2"}
Slots == VerifyTasks \X Providers
NoSlot == [status |-> NoKey, timestamp |-> 0, complexity |-> NoCount, at |-> 0]
NoRun == [task |-> NoKey, complexity |-> NoCount, todo |-> <<>>, tool |-> NoKey, command |-> NoKey]

InitVerify ==
    /\ vSlot = [k \in Slots |-> NoSlot]
    /\ vLog = [k \in Slots |-> <<>>]
    /\ vPc = NoRun
    /\ vRuns = 0
    /\ vInject = "none"

SlotExists(k) == vSlot[k].status # NoKey /\ Live(vSlot[k].at, SlotTTL)
SlotStatus(k) == IF SlotExists(k) THEN vSlot[k].status ELSE NoKey

\* int(complexity) if complexity and complexity.isdigit() else 5, then the cascade
get_verification_providers(complexity) ==
    LET c == IF complexity = NoCount THEN 5 ELSE complexity IN
      IF c <= 4 THEN <<"deepseek">>
      ELSE IF c <= 7 THEN <<"deepseek", "glm">>
      ELSE <<"glm", "claude">>

\* the Bash commands tried, and `word in command` on each of them
Commands == {"git add .", "git commit -m fix", "git status", "git remote add origin url", "ls"}

HasWord(command, word) ==
    IF word = "git" THEN command # "ls" /\ command # NoKey
    ELSE IF word = "commit" THEN command = "git commit -m fix"
    ELSE IF word = "add" THEN command \in {"git add .", "git remote add origin url"}
    ELSE FALSE

\* should_prefetch_verification on the tool of the hooked call and its command
should_prefetch_verification(tool_name, command) ==
    \/ tool_name \in {"Write", "Edit", "MultiEdit"}
    \/ /\ tool_name = "Bash"
       /\ HasWord(command, "git")
       /\ (HasWord(command, "commit") \/ HasWord(command, "add"))

\* verify_prefetch.main up to its loop
PrefetchStart(tool_name, command) ==
    /\ vPc = NoRun
    /\ vRuns < MaxPrefetchRuns
    /\ toolSession # NoKey
    /\ should_prefetch_verification(tool_name, command)
    /\ LET complexity == taskComplexity[toolSession] IN
         vPc' = [task |-> toolSession, complexity |-> complexity,
                 todo |-> get_verification_providers(complexity),
                 tool |-> tool_name, command |-> command]
    /\ vRuns' = vRuns + 1
    /\ UNCHANGED <<vSlot, vLog, vInject, trackVars, patternVars, toolSession, routeVars>>
    /\ UNCHANGED <<supVars, quotaVars, clockVars, hookVars>>

\* start_verification_async for the next provider: SET the blob, EXPIRE 600
start_verification_async ==
    /\ vPc # NoRun
    /\ LET k == <<vPc.task, Head(vPc.todo)>> IN
         /\ vSlot' = [vSlot EXCEPT ![k] = [status |-> "pending", timestamp |-> now,
                                           complexity |-> vPc.complexity, at |-> now]]
         /\ vLog' = [vLog EXCEPT ![k] =
                        IF SlotExists(k) THEN Append(@, "pending") ELSE <<"pending">>]
    /\ vPc' = IF Len(vPc.todo) = 1 THEN NoRun ELSE [vPc EXCEPT !.todo = Tail(@)]
    /\ UNCHANGED <<vRuns, vInject, trackVars, patternVars, toolSession, routeVars>>
    /\ UNCHANGED <<supVars, quotaVars, clockVars, hookVars>>

\* the comparison on a complexity that were an int
ComplexityComparisonInt(complexity) == "ok"
\* `complexity <= 4` in check_verification_status: the blob's complexity is the str
\* that verify-prefetch read from the store, and a str against an int raises
ComplexityComparison(complexity) == "TypeError"

\* verify_inject.main: check_verification_status over the task's slots.  A pending
\* slot older than 30 s is set complete (SET, EXPIRE 600) once its simulated result
\* is computed; the computation starts with the complexity comparison, and an
\* exception there ends the run before any SET.
InjectRun(tool_name) ==
    /\ tool_name \in {"Read", "Bash"}
    /\ toolSession # NoKey
    /\ LET mine == {k \in Slots : k[1] = toolSession /\ SlotExists(k)}
           aged == {k \in mine : /\ vSlot[k].status = "pending"
                                 /\ now - vSlot[k].timestamp > InjectAge}
       IN IF \E k \in aged : ComplexityComparison(vSlot[k].complexity) # "ok"
          THEN /\ vInject' = "raised"
               /\ UNCHANGED <<vSlot, vLog>>
          ELSE /\ vSlot' = [k \in Slots |->
                              IF k \in aged
                              THEN [vSlot[k] EXCEPT !.status = "complete", !.at = now]
                              ELSE vSlot[k]]
               /\ vLog' = [k \in Slots |->
                              IF k \in aged THEN Append(vLog[k], "complete") ELSE vLog[k]]
               /\ vInject' = IF \E k \in mine : k \in aged \/ vSlot[k].status = "complete"
                             THEN "injected" ELSE "nothing"
    /\ UNCHANGED <<vPc, vRuns, trackVars, patternVars, toolSession, routeVars>>
    /\ UNCHANGED <<supVars, quotaVars, clockVars, hookVars>>

\* time passes: past the age verify-inject waits for, or a slot's whole TTL
ElapseVerify(d) ==
    /\ ticks < MaxTicks
    /\ now' = now + d
    /\ ticks' = ticks + 1
    /\ UNCHANGED <<hookVars, supVars, quotaVars, toolVars>>

ToolNames == {"Write", "Bash", "Read"}

NextVerify ==
    \/ DecomposeStep
    \/ \E t \in VerifyTasks : ToolSessionStart(t)
    \/ \E tool_name \in ToolNames \ {"Bash"} : PrefetchStart(tool_name, NoKey)
    \/ \E command \in Commands : PrefetchStart("Bash", command)
    \/ start_verification_async
    \/ \E tool_name \in ToolNames : InjectRun(tool_name)
    \/ \E d \in {InjectAge + 1, SlotTTL} : ElapseVerify(d)

(***************************************************************************)
(* The track-outcome hook (src/hooks/posttooluse_track_outcome.py), run by *)
(* concurrent hook processes, command by command.                          *)
(***************************************************************************)
Outcomes == {"k1", "k2"}
\* str(hash(feature_str)): Python salts str hashes per process
FeatureHashes == {"f1", "f2"}
PatternTTL == 86400
HistoryCap == 1000
NoRec == [attempts |-> 0, successes |-> 0, at |-> 0]
NoLocal == [hash |-> NoKey, success |-> FALSE, rec |-> NoRec]

InitPattern ==
    /\ historyLen = 0
    /\ pRecord = [f \in FeatureHashes |-> NoRec]
    /\ pWrites = [f \in FeatureHashes |-> 0]
    /\ sRecord = NoRec
    /\ cRecord = NoRec
    /\ cWrites = 0
    /\ kPc = [k \in Outcomes |-> "idle"]
    /\ kLocal = [k \in Outcomes |-> NoLocal]
    /\ kRuns = 0

PatternExists(f) == pRecord[f].attempts # 0 /\ Live(pRecord[f].at, PatternTTL)

\* an update of the successes field alone
UpdatedRecordSuccessOnly(rec, success) == [rec EXCEPT !.successes = @ + 1]
\* the blob after attempts += 1 and, on success, successes += 1
UpdatedRecord(rec, success) ==
    [rec EXCEPT !.attempts = @ + 1, !.successes = IF success THEN @ + 1 ELSE @]

\* the blob of the else branch: attempts 1, successes 1 if success else 0
FirstRecord(success) ==
    [attempts |-> 1, successes |-> IF success THEN 1 ELSE 0, at |-> 0]

\* what the SET after a GET writes
WrittenRecord(read, success) ==
    IF read = NoRec THEN FirstRecord(success) ELSE UpdatedRecord(read, success)

\* main up to the pattern key: the session's task, the features and their hash,
\* LPUSH routing:history and LTRIM to the last 1000
TrackStart(k, success, hash) ==
    /\ kPc[k] = "idle"
    /\ kRuns < MaxTrackRuns
    /\ toolSession # NoKey
    /\ kRuns' = kRuns + 1
    /\ historyLen' = IF historyLen < HistoryCap THEN historyLen + 1 ELSE HistoryCap
    /\ kLocal' = [kLocal EXCEPT ![k] = [hash |-> hash, success |-> success, rec |-> NoRec]]
    /\ kPc' = [kPc EXCEPT ![k] = "pattern_get"]
    /\ UNCHANGED <<pRecord, pWrites, sRecord, cRecord, cWrites>>
    /\ UNCHANGED <<trackVars, verifyVars, toolSession, routeVars>>
    /\ UNCHANGED <<supVars, quotaVars, clockVars, hookVars>>

\* GET routing:pattern:<hash>
TrackPatternGet(k) ==
    /\ kPc[k] = "pattern_get"
    /\ LET f == kLocal[k].hash IN
         kLocal' = [kLocal EXCEPT ![k].rec =
                       IF PatternExists(f) THEN [pRecord[f] EXCEPT !.at = 0] ELSE NoRec]
    /\ kPc' = [kPc EXCEPT ![k] = "pattern_set"]
    /\ UNCHANGED <<historyLen, pRecord, pWrites, sRecord, cRecord, cWrites, kRuns>>
    /\ UNCHANGED <<trackVars, verifyVars, toolSession, routeVars>>
    /\ UNCHANGED <<supVars, quotaVars, clockVars, hookVars>>

\* SET routing:pattern:<hash> with the whole blob, EXPIRE 86400
TrackPatternSet(k) ==
    /\ kPc[k] = "pattern_set"
    /\ LET f == kLocal[k].hash IN
         /\ pRecord' = [pRecord EXCEPT ![f] =
                           [WrittenRecord(kLocal[k].rec, kLocal[k].success) EXCEPT !.at = now]]
         /\ pWrites' = [pWrites EXCEPT ![f] = IF PatternExists(f) THEN @ + 1 ELSE 1]
    /\ kPc' = [kPc EXCEPT ![k] = "stats_get"]
    /\ UNCHANGED <<historyLen, sRecord, cRecord, cWrites, kLocal, kRuns>>
    /\ UNCHANGED <<trackVars, verifyVars, toolSession, routeVars>>
    /\ UNCHANGED <<supVars, quotaVars, clockVars, hookVars>>

\* GET provider:stats:<provider>
TrackStatsGet(k) ==
    /\ kPc[k] = "stats_get"
    /\ kLocal' = [kLocal EXCEPT ![k].rec = sRecord]
    /\ kPc' = [kPc EXCEPT ![k] = "stats_set"]
    /\ UNCHANGED <<historyLen, pRecord, pWrites, sRecord, cRecord, cWrites, kRuns>>
    /\ UNCHANGED <<trackVars, verifyVars, toolSession, routeVars>>
    /\ UNCHANGED <<supVars, quotaVars, clockVars, hookVars>>

\* SET provider:stats:<provider>: total_tasks, successful_tasks, success_rate
TrackStatsSet(k) ==
    /\ kPc[k] = "stats_set"
    /\ sRecord' = WrittenRecord(kLocal[k].rec, kLocal[k].success)
    /\ kPc' = [kPc EXCEPT ![k] = "complexity_get"]
    /\ UNCHANGED <<historyLen, pRecord, pWrites, cRecord, cWrites, kLocal, kRuns>>
    /\ UNCHANGED <<trackVars, verifyVars, toolSession, routeVars>>
    /\ UNCHANGED <<supVars, quotaVars, clockVars, hookVars>>

\* GET provider:complexity:<provider>:<complexity>
TrackComplexityGet(k) ==
    /\ kPc[k] = "complexity_get"
    /\ kLocal' = [kLocal EXCEPT ![k].rec = cRecord]
    /\ kPc' = [kPc EXCEPT ![k] = "complexity_set"]
    /\ UNCHANGED <<historyLen, pRecord, pWrites, sRecord, cRecord, cWrites, kRuns>>
    /\ UNCHANGED <<trackVars, verifyVars, toolSession, routeVars>>
    /\ UNCHANGED <<supVars, quotaVars, clockVars, hookVars>>

\* SET provider:complexity:<provider>:<complexity>, and the run ends
TrackComplexitySet(k) ==
    /\ kPc[k] = "complexity_set"
    /\ cRecord' = WrittenRecord(kLocal[k].rec, kLocal[k].success)
    /\ cWrites' = cWrites + 1
    /\ kPc' = [kPc EXCEPT ![k] = "idle"]
    /\ kLocal' = [kLocal EXCEPT ![k] = NoLocal]
    /\ UNCHANGED <<historyLen, pRecord, pWrites, sRecord, kRuns>>
    /\ UNCHANGED <<trackVars, verifyVars, toolSession, routeVars>>
    /\ UNCHANGED <<supVars, quotaVars, clockVars, hookVars>>

\* a pattern key's whole TTL passes
ElapsePattern ==
    /\ ticks < MaxTicks
    /\ now' = now + PatternTTL
    /\ ticks' = ticks + 1
    /\ UNCHANGED <<hookVars, supVars, quotaVars, toolVars>>

TrackStep(k) ==
    \/ \E success \in BOOLEAN : \E hash \in FeatureHashes : TrackStart(k, success, hash)
    \/ TrackPatternGet(k)
    \/ TrackPatternSet(k)
    \/ TrackStatsGet(k)
    \/ TrackStatsSet(k)
    \/ TrackComplexityGet(k)
    \/ TrackComplexitySet(k)

NextPattern ==
    \/ ToolSessionStart("T1")
    \/ \E k \in Outcomes : TrackStep(k)
    \/ ElapsePattern

(***************************************************************************)
(* One routing decision: ProviderRouter.route_task and cascade             *)
(* (src/src/hekate/router.py) and find_best_provider_by_pattern of the     *)
(* pre-tool-use router hook (src/hooks/PreToolUse/router.py), each applied *)
(* to inputs drawn at the start.                                           *)
(***************************************************************************)
TaskTypes == {"planning", "review", "verification", "implementation"}
Complexities == {"simple", "medium", "complex"}
NoPattern == [present |-> FALSE, provider |-> NoKey, attempts |-> 0, successes |-> 0]
NoStats == [present |-> FALSE, attempts |-> 0, successes |-> 0]
NoOut == [route |-> NoKey, cascade |-> NoKey, best |-> NoKey]
DefaultTask == [type |-> "implementation", complexity |-> "simple", previous_provider |-> NoKey]

\* the inputs the decisions are tried on
ClaudeCounts == {0, 17, 18, 35, 36, 44, 45}
GlmCounts == {0, 173, 174, 180}
PreviousProviders == {NoKey, "deepseek", "glm", "openrouter", "claude", "gemini"}
AttemptsSuccesses == {<<0, 0>>, <<2, 2>>, <<3, 2>>, <<3, 3>>, <<4, 4>>, <<10, 7>>, <<10, 8>>}
PatternRecords ==
    {NoPattern} \cup {[present |-> TRUE, provider |-> p, attempts |-> x[1], successes |-> x[2]] :
                        p \in {"glm", "claude"}, x \in AttemptsSuccesses}
StatsRecords ==
    {NoStats} \cup {[present |-> TRUE, attempts |-> x[1], successes |-> x[2]] :
                      x \in {<<4, 4>>, <<5, 3>>, <<5, 5>>, <<6, 6>>, <<10, 6>>}}
BaseProviders == {"auto", "deepseek", "claude"}

(***************************************************************************)
(* The recent-memory lists: hooks/posttooluse_memory.py.                   *)
(***************************************************************************)
MemProcs == {"m1", "m2"}
MemTypes == {"bugfix", "test"}

\* GET session:<session_id>:provider of the session each hook process serves
SessionProvider(p) == IF p = "m1" THEN "claude" ELSE "glm"

RecentKey == <<"recent", "all">>
MemKeys == {RecentKey} \cup ({"type"} \X MemTypes)
               \cup ({"provider"} \X {SessionProvider(p) : p \in MemProcs})

\* the second bound of LTRIM, plus one: 0..99 and 0..49
RecentCap == 100
TypeCap == 50
ProviderCap == 50
MemCap(key) ==
    IF key = RecentKey THEN RecentCap
    ELSE IF key[1] = "type" THEN TypeCap ELSE ProviderCap

\* LPUSH key entry: the entry becomes the head of the list
LPUSH(list, entry) == <<entry>> \o list

\* LTRIM key 0 stop: keep indexes 0..stop
LTRIM(list, stop) == IF Len(list) > stop + 1 THEN SubSeq(list, 1, stop + 1) ELSE list

\* a list as earlier runs left it: count entries, the latest at the head
FilledList(count) == [i \in 1..count |-> [agent_pid |-> "m1", n |-> count - i + 1]]

MemIdle == [step |-> "idle", list |-> NoKey, type |-> NoKey]

InitMemoryIdle ==
    /\ memList = [key \in MemKeys |-> <<>>]
    /\ memAt = [key \in MemKeys |-> 0]
    /\ memPushed = [key \in MemKeys |-> 0]
    /\ memPc = [p \in MemProcs |-> MemIdle]
    /\ memRuns = 0

InitMemory ==
    /\ memList = [key \in MemKeys |->
                     FilledList(IF key = RecentKey THEN RecentFill ELSE TypeFill)]
    /\ memAt = [key \in MemKeys |-> 0]
    /\ memPushed = [key \in MemKeys |-> Len(memList[key])]
    /\ memPc = [p \in MemProcs |-> MemIdle]
    /\ memRuns = 0

\* the key a run is working on
MemKeyOf(p) ==
    IF memPc[p].list = "recent" THEN RecentKey
    ELSE IF memPc[p].list = "type" THEN <<"type", memPc[p].type>>
    ELSE <<"provider", SessionProvider(p)>>

MemNotRunning(p) == memPc[p].step \in {"idle", "exited"}

MemUnchanged ==
    /\ UNCHANGED <<rtVars, ctxVars, beatVars, winVars, killVars, envVars, keyVars>>
    /\ UNCHANGED <<supVars, quotaVars, clockVars, hookVars>>
    /\ UNCHANGED <<trackVars, verifyVars, patternVars, toolSession>>

\* main up to the first LPUSH: sys.exit(0) unless the tool is Bash with a command
\* that is_solution_pattern accepts; extract_pattern gives the pattern type
MemoryMain(p, tool_name, solution, type) ==
    /\ MemNotRunning(p)
    /\ memRuns < MaxMemRuns
    /\ memRuns' = memRuns + 1
    /\ memPc' = [memPc EXCEPT ![p] =
                    IF tool_name = "Bash" /\ solution
                    THEN [step |-> "lpush", list |-> "recent", type |-> type]
                    ELSE [step |-> "exited", list |-> NoKey, type |-> NoKey]]
    /\ UNCHANGED <<memList, memAt, memPushed>>
    /\ MemUnchanged

\* redis-cli LPUSH <key> <entry>
MemoryLpush(p) ==
    /\ memPc[p].step = "lpush"
    /\ LET key == MemKeyOf(p) IN
         /\ memList' = [memList EXCEPT ![key] =
                           LPUSH(@, [agent_pid |-> p, n |-> memPushed[key] + 1])]
         /\ memPushed' = [memPushed EXCEPT ![key] = @ + 1]
    /\ memPc' = [memPc EXCEPT ![p].step = "ltrim"]
    /\ UNCHANGED <<memAt, memRuns>>
    /\ MemUnchanged

\* redis-cli LTRIM <key> 0 99, or 0 49
MemoryLtrim(p) ==
    /\ memPc[p].step = "ltrim"
    /\ LET key == MemKeyOf(p) IN
         memList' = [memList EXCEPT ![key] = LTRIM(@, MemCap(key) - 1)]
    /\ memPc' = [memPc EXCEPT ![p].step = "expire"]
    /\ UNCHANGED <<memAt, memPushed, memRuns>>
    /\ MemUnchanged

\* redis-cli EXPIRE <key> <ttl>, then the next list, or sys.exit(0) after the last
MemoryExpire(p) ==
    /\ memPc[p].step = "expire"
    /\ memAt' = [memAt EXCEPT ![MemKeyOf(p)] = now]
    /\ memPc' = [memPc EXCEPT ![p] =
                    IF @.list = "recent" THEN [@ EXCEPT !.step = "lpush", !.list = "type"]
                    ELSE IF @.list = "type" THEN [@ EXCEPT !.step = "lpush", !.list = "provider"]
                    ELSE [step |-> "exited", list |-> NoKey, type |-> NoKey]]
    /\ UNCHANGED <<memList, memPushed, memRuns>>
    /\ MemUnchanged

NextMemory ==
    \E p \in MemProcs :
        \/ \E tool_name \in {"Bash", "Write"} : \E solution \in BOOLEAN : \E type \in MemTypes :
               MemoryMain(p, tool_name, solution, type)
        \/ MemoryLpush(p)
        \/ MemoryLtrim(p)
        \/ MemoryExpire(p)

(***************************************************************************)
(* Every tool-use hook from its start to `if not task_id: sys.exit(0)`.    *)
(***************************************************************************)
HookNames == {"router", "memory", "verify_inject", "verify_prefetch",
              "track_outcome", "metrics", "complete_task"}

\* the session of a spawned agent, bound by its session-start hook, and a session
\* that has nothing to do with any task
HookSessions == {"agent", "unrelated"}

\* GET session:<session_id>:task_id
SessionTaskId(session_id) == IF session_id = "agent" THEN toolSession ELSE NoKey

\* a hook that answers a missing binding by going on into its body
NotTaskIdNever(task_id) == FALSE

\* `if not task_id`
NotTaskId(task_id) == task_id = NoKey

NoExit == [session_id |-> NoKey, state |-> "none", code |-> NoCount, output |-> ""]

(***************************************************************************)
(* The pattern key of a feature vector, as each hook process computes it   *)
(* (src/hooks/posttooluse_track_outcome.py, src/hooks/PreToolUse/          *)
(* router.py).  hash() of a str is keyed by the hash seed of the           *)
(* interpreter, which every process draws afresh when PYTHONHASHSEED is    *)
(* not set; nothing in the hooks sets it.                                  *)
(***************************************************************************)
\* two track-outcome processes and one pre-tool-use router process
HashProcs == {"k1", "k2", "r1"}
HashSeeds == 0..MaxSeed
HashSpace == 65536
FeatureComplexities == {3, 7}
FeatureTools == {"Write", "Read"}

\* features = {'complexity': ..., 'tool_type': ..., 'is_write_op': ..., 'is_read_op': ..., 'is_test': ...}
Features(complexity, tool_name, is_test) ==
    [complexity |-> complexity,
     tool_type |-> tool_name,
     is_write_op |-> tool_name \in {"Write", "Edit", "MultiEdit"},
     is_read_op |-> tool_name \in {"Read", "Glob", "Grep"},
     is_test |-> is_test]

\* the code points of a JSON value, folded into one number
ToolCode(tool_name) == IF tool_name = "Write" THEN 87 ELSE 82
BoolCode(b) == IF b THEN 116 ELSE 102

\* json.dumps(features, sort_keys=True): the values in the order of the sorted keys
\* complexity, is_read_op, is_test, is_write_op, tool_type
json_dumps(features) ==
    <<features.complexity, BoolCode(features.is_read_op), BoolCode(features.is_test),
      BoolCode(features.is_write_op), ToolCode(features.tool_type)>>

\* hash(feature_str) in an interpreter whose hash seed is seed
RECURSIVE hash(_, _)
hash(feature_str, seed) ==
    IF feature_str = <<>>
    THEN seed
    ELSE (hash(Tail(feature_str), seed) * 33 + Head(feature_str)) % HashSpace

\* pattern_key = f'routing:pattern:{feature_hash}'
PatternKey(feature_hash) == <<"routing:pattern", feature_hash>>

NoHashRun == [ran |-> FALSE, seed |-> 0, features |-> Features(3, "Read", FALSE),
              key |-> PatternKey(0)]

\* one hook process: the interpreter starts with its seed, main builds the
\* feature vector and computes the pattern key
PatternKeyRun(k, seed, complexity, tool_name, is_test) ==
    /\ LET features == Features(complexity, tool_name, is_test) IN
         hashProc' = [hashProc EXCEPT ![k] =
                        [ran |-> TRUE, seed |-> seed, features |-> features,
                         key |-> PatternKey(hash(json_dumps(features), seed))]]
    /\ UNCHANGED <<supVars, quotaVars, clockVars, hookVars>>
    /\ UNCHANGED <<trackVars, verifyVars, patternVars, toolSession>>
    /\ UNCHANGED <<rtVars, memVars, ctxVars, beatVars, winVars, killVars, envVars>>

NextKeys ==
    \E k \in HashProcs : \E seed \in HashSeeds : \E complexity \in FeatureComplexities :
       \E tool_name \in FeatureTools : \E is_test \in BOOLEAN :
          PatternKeyRun(k, seed, complexity, tool_name, is_test)

InitContext == hkExit = [h \in HookNames |-> NoExit] /\ beatAt = 0 /\ winIncrs = 0
    /\ killPc = NoAgent /\ hbPolled = NoAgent /\ killDone = {}
    /\ hashProc = [k \in HashProcs |-> NoHashRun]

\* verify-inject leaves before the look-up unless the tool is Read or Bash
LeavesBeforeLookup(h, tool_name) == h = "verify_inject" /\ tool_name \notin {"Read", "Bash"}

\* main of hook h on an envelope of session_id: json.load, the GET, the exit.
\* Nothing is written and nothing printed before the look-up; a bound session
\* goes on into the body of the hook.
HookMain(h, session_id, tool_name) ==
    /\ hkExit' = [hkExit EXCEPT ![h] =
                    IF LeavesBeforeLookup(h, tool_name) \/ NotTaskId(SessionTaskId(session_id))
                    THEN [session_id |-> session_id, state |-> "exited", code |-> 0, output |-> ""]
                    ELSE [session_id |-> session_id, state |-> "body", code |-> NoCount, output |-> ""]]
    /\ UNCHANGED <<rtVars, memVars, beatVars, winVars, killVars, envVars, keyVars>>
    /\ UNCHANGED <<supVars, quotaVars, clockVars, hookVars>>
    /\ UNCHANGED <<trackVars, verifyVars, patternVars, toolSession>>

NextContext ==
    \/ \E t \in VerifyTasks : ToolSessionStart(t)
    \/ \E h \in HookNames, session_id \in HookSessions, tool_name \in ToolNames :
           HookMain(h, session_id, tool_name)

InitRouteIdle ==
    /\ InitMemoryIdle
    /\ InitContext
    /\ rtTask = DefaultTask
    /\ rtPattern = NoPattern
    /\ rtStats = [p \in Providers |-> NoStats]
    /\ rtBase = "auto"
    /\ rtOut = NoOut

\* ProviderRouter.cascade
cascade_chain == <<"deepseek", "glm", "openrouter", "claude">>

ChainIndex(provider) ==
    LET at == {i \in 1..Len(cascade_chain) : cascade_chain[i] = provider}
    IN IF at = {} THEN 0 ELSE CHOOSE i \in at : TRUE

\* cascade had a missing previous_provider counted as outside the chain
cascade_missing_outside(task) ==
    LET current_index == ChainIndex(task.previous_provider)
    IN IF current_index = 0 THEN "claude"
       ELSE IF current_index + 1 <= Len(cascade_chain) THEN cascade_chain[current_index + 1]
       ELSE "claude"

cascade(task) ==
    LET previous_provider == IF task.previous_provider = NoKey THEN "deepseek"
                             ELSE task.previous_provider
        current_index == ChainIndex(previous_provider)
    IN IF current_index = 0 THEN "claude"
       ELSE IF current_index + 1 <= Len(cascade_chain) THEN cascade_chain[current_index + 1]
       ELSE "claude"

\* the exact pattern match had the attempts threshold been 2
PatternQualifiesFromTwo(pattern) ==
    /\ pattern.present
    /\ pattern.attempts # 0
    /\ pattern.successes * 10 > 7 * pattern.attempts
    /\ pattern.attempts >= 2

\* find_best_provider_by_pattern: the exact pattern match.  A record with
\* attempts = 0 raises ZeroDivisionError, which the except clause swallows.
PatternQualifies(pattern) ==
    /\ pattern.present
    /\ pattern.attempts # 0
    /\ pattern.successes * 10 > 7 * pattern.attempts
    /\ pattern.attempts >= 3

\* find_best_provider_by_pattern: the complexity statistics.  max() keeps the
\* first of equal keys in the order the providers are asked.
StatsOrder == <<"claude", "glm", "deepseek", "openrouter">>
MinStatsAttempts == 5

BetterScore(a, b) ==
    \/ a.successes * b.attempts > b.successes * a.attempts
    \/ /\ a.successes * b.attempts = b.successes * a.attempts
       /\ a.attempts > b.attempts

BestByStats(stats, current_provider) ==
    LET scored == {i \in 1..Len(StatsOrder) :
                      /\ stats[StatsOrder[i]].present
                      /\ stats[StatsOrder[i]].attempts >= MinStatsAttempts}
        top == {i \in scored :
                   \A j \in scored : ~BetterScore(stats[StatsOrder[j]], stats[StatsOrder[i]])}
    IN IF scored = {} THEN current_provider
       ELSE StatsOrder[CHOOSE i \in top : \A j \in top : i <= j]

find_best_provider_by_pattern(pattern, stats, current_provider) ==
    IF PatternQualifies(pattern) THEN pattern.provider
    ELSE BestByStats(stats, current_provider)

\* router.route_task(task)
RouteTask ==
    /\ rtOut.route = NoKey
    /\ rtOut' = [rtOut EXCEPT !.route = route_task(rtTask)]
    /\ RouteEffect(rtTask)
    /\ UNCHANGED <<rtTask, rtPattern, rtStats, rtBase, restVars>>
    /\ UNCHANGED <<supVars, clockVars, hookVars, trackVars, verifyVars, patternVars, toolSession>>

\* router.cascade(task)
Cascade ==
    /\ rtOut.cascade = NoKey
    /\ rtOut' = [rtOut EXCEPT !.cascade = cascade(rtTask)]
    /\ UNCHANGED <<rtTask, rtPattern, rtStats, rtBase, restVars>>
    /\ UNCHANGED <<supVars, quotaVars, clockVars, hookVars, trackVars, verifyVars,
                   patternVars, toolSession>>

\* the router hook's call of find_best_provider_by_pattern(features, base_provider)
FindBestProvider ==
    /\ rtOut.best = NoKey
    /\ rtOut' = [rtOut EXCEPT !.best = find_best_provider_by_pattern(rtPattern, rtStats, rtBase)]
    /\ UNCHANGED <<rtTask, rtPattern, rtStats, rtBase, restVars>>
    /\ UNCHANGED <<supVars, quotaVars, clockVars, hookVars, trackVars, verifyVars,
                   patternVars, toolSession>>

NextRoute == RouteTask \/ Cascade \/ FindBestProvider

\* the quota keys of the two metered providers, inside a window begun just now
InitRouteQuota(claude_count, glm_count) ==
    /\ qWindow = [p \in Providers |-> IF HasQuota(p) THEN [fmt |-> "iso", t |-> now] ELSE NoWindow]
    /\ qCount = [p \in Providers |->
                   IF p = "claude" THEN claude_count
                   ELSE IF p = "glm" THEN glm_count ELSE NoCount]

\* either a task, the quota counts and the pattern record are drawn, or the
\* previous provider, or the pattern record, the statistics and the base provider
InitRouteInputs ==
    \/ /\ \E c \in ClaudeCounts, g \in GlmCounts : InitRouteQuota(c, g)
       /\ \E ty \in TaskTypes, cx \in Complexities :
             rtTask = [type |-> ty, complexity |-> cx, previous_provider |-> NoKey]
       /\ rtPattern \in PatternRecords
       /\ rtStats = [p \in Providers |-> NoStats]
       /\ rtBase = "auto"
    \/ /\ InitRouteQuota(0, 0)
       /\ \E pp \in PreviousProviders : rtTask = [DefaultTask EXCEPT !.previous_provider = pp]
       /\ rtPattern = NoPattern
       /\ rtStats = [p \in Providers |-> NoStats]
       /\ rtBase = "auto"
    \/ /\ InitRouteQuota(0, 0)
       /\ rtTask = DefaultTask
       /\ rtPattern \in PatternRecords
       /\ \E sc \in StatsRecords, sg \in StatsRecords :
             rtStats = [p \in Providers |->
                          IF p = "claude" THEN sc ELSE IF p = "glm" THEN sg ELSE NoStats]
       /\ rtBase \in BaseProviders

vars == <<clockVars, supVars, quotaVars, hookVars, toolVars>>

InitClock == now = 0 /\ ticks = 0

InitQuota ==
    /\ qWindow = [p \in Providers |-> NoWindow]
    /\ qCount = [p \in Providers |-> NoCount]

InitSup(readyList) ==
    /\ ready = readyList
    /\ owner = [t \in Tasks |-> NoOwner]
    /\ heartbeat = <<>>
    /\ agentTask = <<>>
    /\ isOwner = [t \in Tasks |-> NoKey]
    /\ supPc = [s \in Sups |-> "idle"]
    /\ supCur = [s \in Sups |-> [task |-> NoKey, provider |-> NoKey]]
    /\ supIter = [s \in Sups |-> 0]
    /\ agents = [s \in Sups |-> <<>>]
    /\ pools = [s \in Sups |-> [p \in Providers |-> <<>>]]
    /\ spawnCount = [t \in Tasks |-> 0]
    /\ lastResult = [s \in Sups |-> [t \in Tasks |-> "none"]]

InitToolBase == InitTrack /\ InitSession /\ InitVerify /\ InitPattern /\ InitRouteIdle
InitTool == InitToolBase /\ InitEnviron

(***************************************************************************)
(* Specifications.                                                         *)
(***************************************************************************)
\* two supervisor instances on one coordination store racing for one ready task,
\* within the claim TTL
InitRace == InitClock /\ InitQuota /\ InitSup(<<"T1">>) /\ InitHook /\ InitTool
NextRace == \E s \in Sups : SupStep(s)
SpecRace == InitRace /\ [][NextRace]_vars

\* one supervisor over a long time
InitSupervisor == InitClock /\ InitQuota /\ InitSup(<<"T1", "T2", "T3">>) /\ InitHook /\ InitTool
NextSup == SupStep("s1") \/ Elapse
SpecSup == InitSupervisor /\ [][NextSup]_vars

\* the iterations of one supervisor while the agents it spawned keep running
\* (their heartbeats still age)
NextAssign ==
    \/ RunIteration("s1")
    \/ ClaimTaskInRedis("s1")
    \/ \E ok \in BOOLEAN : ClaimTaskInBeads("s1", ok)
    \/ UnclaimTaskInRedis("s1")
    \/ SpawnAgent("s1")
    \/ CleanupCompletedAgents("s1")
    \/ Sleep("s1")
    \/ Elapse
SpecAssign == InitSupervisor /\ [][NextAssign]_vars

\* the life of one supervisor: its iterations with the failures of the
\* tracker and of the spawn, its agents ending, an interrupt
LifeTasks == <<"T1", "T2">>
InitLife == InitClock /\ InitQuota /\ InitSup(LifeTasks) /\ InitHook /\ InitTool
NextLife ==
    \/ RunIteration("s1")
    \/ ListReadyRaises("s1")
    \/ ClaimTaskInRedis("s1")
    \/ \E ok \in BOOLEAN : ClaimTaskInBeads("s1", ok)
    \/ UnclaimTaskInRedis("s1")
    \/ SpawnAgent("s1")
    \/ SpawnAgentRaises("s1")
    \/ CleanupCompletedAgents("s1")
    \/ Sleep("s1")
    \/ HeartbeatWorkerAlive("s1")
    \/ \E a \in DOMAIN agents["s1"] : \E st \in {"exit0", "failed", "killed"} : AgentExit("s1", a, st)
    \/ Interrupt("s1")
    \/ Elapse
SpecLife == InitLife /\ [][NextLife]_vars

\* one supervisor with its heartbeat thread on schedule
InitBeat == InitClock /\ InitQuota /\ InitSup(<<"T1">>) /\ InitHook /\ InitTool
SpecBeat == InitBeat /\ [][NextBeat]_vars

\* _shutdown killing the agents while the heartbeat thread goes round
SpecKill == InitLife /\ [][NextKill]_vars

\* a supervisor started in some environment, and the sessions of its agents
InitEnv == InitClock /\ InitQuota /\ InitSup(<<"T1">>) /\ InitHook /\ InitToolBase
           /\ InitEnvironAny
NextEnv ==
    \/ NextLife
    \/ \E a \in DOMAIN agents["s1"] : AgentSessionStart("s1", a)
SpecEnv == InitEnv /\ [][NextEnv]_vars


\* one caller of claude's QuotaTracker, alone on the quota keys
InitWindow == InitClock /\ InitQuota /\ InitSup(<<>>) /\ InitHook /\ InitTool
NextWindow ==
    \/ \E q \in Trackers : TrackerStep(q)
    \/ ElapseWindow
SpecWindow == InitWindow /\ [][NextWindow]_vars

\* two processes incrementing claude's quota through their own QuotaTracker
NextWindowRace ==
    \/ \E q \in Callers : TrackerCall(q, [name |-> "increment", flag |-> FALSE])
    \/ \E q \in Callers : TrackerEnsureRead(q)
    \/ \E q \in Callers : TrackerSetWindow(q)
    \/ \E q \in Callers : TrackerSetCount(q)
    \/ \E q \in Callers : TrackerIncrement(q)
    \/ ElapseWindow
SpecWindowRace == InitWindow /\ [][NextWindowRace]_vars

\* the epic hooks and the sessions they spawn
InitHooks == InitClock /\ InitQuota /\ InitSup(<<>>) /\ InitHook /\ InitTool
SpecHook == InitHooks /\ [][NextHook]_vars
SpecHookTtl == InitHooks /\ [][NextHookTtl]_vars

\* the verification hooks of one session
SpecVerify == InitHooks /\ [][NextVerify]_vars

\* concurrent track-outcome hooks of one session
SpecPattern == InitHooks /\ [][NextPattern]_vars

\* callers of claude's QuotaTracker and router hook runs of a claude session
SpecQuota == InitHooks /\ [][NextQuota]_vars

\* one routing decision of each router on drawn inputs
InitRoute ==
    /\ InitClock /\ InitSup(<<>>) /\ InitHook
    /\ InitTrack /\ InitSession /\ InitVerify /\ InitPattern
    /\ InitRouteInputs
    /\ rtOut = NoOut
    /\ InitMemoryIdle
    /\ InitContext
    /\ InitEnviron
SpecRoute == InitRoute /\ [][NextRoute]_vars

\* two agents' memory hooks pushing onto lists that earlier runs have nearly filled
InitMem ==
    /\ InitClock /\ InitQuota /\ InitSup(<<>>) /\ InitHook
    /\ InitTrack /\ InitSession /\ InitVerify /\ InitPattern
    /\ rtTask = DefaultTask /\ rtPattern = NoPattern
    /\ rtStats = [p \in Providers |-> NoStats] /\ rtBase = "auto" /\ rtOut = NoOut
    /\ InitMemory
    /\ InitContext
    /\ InitEnviron
SpecMemory == InitMem /\ [][NextMemory]_vars

\* hooks invoked in a bound and in an unrelated session
SpecContext == InitHooks /\ [][NextContext]_vars
\* hook processes computing pattern keys
SpecKeys == InitHooks /\ [][NextKeys]_vars

\* ======================= claims =======================

(***************************************************************************)
(* C1.  Two supervisors sharing one coordination store that both run       *)
(* _assign_task for the same ready task: at any moment at most one of them *)
(* holds the SET NX claim on task:<id>:owner, at most one spawn_agent call *)
(* is made for the task, the supervisors that ended in "spawned" are as    *)
(* many as the spawns, and when both have finished their _assign_task and  *)
(* the issue store refused neither, exactly one spawned and the other      *)
(* returned on the claim conflict without spawning.                        *)
(***************************************************************************)
Holders(t) == {s \in Sups : supPc[s] \in {"beads", "unclaim", "spawn"} /\ supCur[s].task = t}

C1_ExactlyOneSupervisorWins ==
    \A t \in Tasks :
        /\ Cardinality(Holders(t)) <= 1
        /\ spawnCount[t] <= 1
        /\ Cardinality({s \in Sups : lastResult[s][t] = "spawned"}) = spawnCount[t]
        /\ (\A s \in Sups : lastResult[s][t] \in {"spawned", "conflict"}) =>
              Cardinality({s \in Sups : lastResult[s][t] = "spawned"}) = 1

\* both supervisors ran _assign_task for T1: one spawned, the other lost the claim
C1_Witness ==
    /\ lastResult["s1"]["T1"] = "spawned"
    /\ lastResult["s2"]["T1"] = "conflict"
    /\ spawnCount["T1"] = 1

(***************************************************************************)
(* C2.  For each task id at most one agent task record of the store        *)
(* (agent:<agent_id>:task of the agent manager, agent:<pid>:task_id of the *)
(* spawn-agents hook) holds that task id, also after agents were reaped    *)
(* and the task was claimed again.                                         *)
(***************************************************************************)
AgentRecordsOf(t) ==
    Cardinality({a \in DOMAIN agentTask : agentTask[a] = t})
      + Cardinality({pid \in DOMAIN hookAgentTask : hookAgentTask[pid] = t})

C2_OneAgentRecordPerTask == \A t \in Tasks : AgentRecordsOf(t) <= 1

(***************************************************************************)
(* C3.  For every epic, complete_count <= task_count in every state, for   *)
(* any sequence of complete-task hook firings, several commits of one      *)
(* session included.                                                       *)
(***************************************************************************)
C3_CompleteCountWithinTaskCount ==
    \A e \in Epics : epicStatus[e] # NoKey => epicCompleteCount[e] <= epicTaskCount[e]

(***************************************************************************)
(* C5.  The agents in a provider's active pool never outnumber that        *)
(* provider's pool_size.                                                   *)
(***************************************************************************)
C5_PoolWithinSize == \A s \in Sups : \A p \in Providers : PoolLen(s, p) <= PoolSize(p)

(***************************************************************************)
(* C9.  The values written to task:<id>:status only move forward along     *)
(* pending -> claimed -> in_progress -> complete; in particular complete   *)
(* is never overwritten by an earlier status.                              *)
(***************************************************************************)
StatusRank(st) ==
    CASE st = "pending" -> 1
      [] st = "claimed" -> 2
      [] st = "in_progress" -> 3
      [] st = "complete" -> 4
      [] OTHER -> 0

C9_StatusMonotone ==
    [][\A t \in Tasks : StatusRank(taskStatus'[t]) >= StatusRank(taskStatus[t])]_vars

(***************************************************************************)
(* C10.  A task whose agent died before completing it is filtered as       *)
(* claimed until 1 h after its claim, and is eligible again once the claim *)
(* TTL has elapsed: on the supervisor's owner key and on the spawn-agents  *)
(* hook's claimed key.                                                     *)
(***************************************************************************)
HookAgentsDead(t) ==
    /\ \E pid \in DOMAIN procs : procs[pid].task = t
    /\ \A pid \in DOMAIN procs : procs[pid].task = t => ~procs[pid].alive

SupAgentsDead(t) ==
    /\ \E a \in DOMAIN agentTask : agentTask[a] = t
    /\ \A s \in Sups : \A a \in DOMAIN agents[s] :
          agentTask[a] = t => agents[s][a] # "running"

C10_ClaimReleasedAfterTTL ==
    \A t \in Tasks :
        /\ (owner[t].val # NoKey /\ SupAgentsDead(t)) =>
              (_is_task_claimed(t) <=> now < owner[t].at + ClaimTTL)
        /\ (claimedAt[t] # NoCount /\ HookAgentsDead(t) /\ taskStatus[t] # "complete") =>
              (taskClaimed[t] = "true" <=> now < claimedAt[t] + ClaimTTL)

(***************************************************************************)
(* C4.  With limit 45 and buffer_percent 20 (buffer_limit 36), can_use     *)
(* with the emergency flag false returns true exactly when count < 36, and *)
(* can_use with the flag true returns true exactly when count < 45.        *)
(***************************************************************************)
C4_CanUseThresholds ==
    /\ BufferLimit(TrackedProvider) = 36
    /\ Limit(TrackedProvider) = 45
    /\ \A q \in Trackers :
          tReturn[q] # NoReturn =>
             IF tReturn[q].flag
             THEN tReturn[q].result <=> tReturn[q].count < 45
             ELSE tReturn[q].result <=> tReturn[q].count < 36

(***************************************************************************)
(* C8.  For every provider with a quota the stored quota:<provider>:count  *)
(* never exceeds limit + e, e the number of increments in flight, over any *)
(* sequence of QuotaTracker.increment calls and router hook runs.          *)
(***************************************************************************)
IncrementsInFlight ==
    Cardinality({q \in Trackers : tPc[q] # "idle" /\ tOp[q].name = "increment"})
      + Cardinality({r \in Routers : rPc[r] = "incr"})

C8_CountWithinLimit ==
    \A p \in Providers : HasQuota(p) => CountRead(p) <= Limit(p) + IncrementsInFlight

C7_SuccessesWithinAttempts ==
    /\ \A f \in FeatureHashes : pRecord[f].successes <= pRecord[f].attempts
    /\ cRecord.successes <= cRecord.attempts

\* both records were written more often than their attempts tell: updates were lost
C7_Witness ==
    /\ \E f \in FeatureHashes :
          /\ PatternExists(f)
          /\ pRecord[f].attempts < pWrites[f]
          /\ pRecord[f].successes >= 1
    /\ cRecord.attempts < cWrites
    /\ cRecord.successes >= 1

\* C11: a firing of the complete-task hook marks the epic complete and emits
\* the banner if and only if the reply of its own INCR of complete_count
\* equals the epic's task_count; every other firing changes neither
C11_BannerIffOwnIncrementIsN ==
    [][\A pid \in DOMAIN procs :
         (procs[pid].cpc = "check" /\ procs'[pid].cpc = "idle")
         => LET e == taskEpic[SessionTaskOf(pid)]
            IN IF procs[pid].cnew = epicTaskCount[e]
               THEN banners' = banners + 1 /\ epicStatus'[e] = "complete"
               ELSE banners' = banners /\ epicStatus' = epicStatus]_vars

\* C12: whenever no complete-task firing is in flight, an epic's status is
\* complete if and only if complete_count equals task_count and task_count > 0
NoFiringInFlight == \A pid \in DOMAIN procs : procs[pid].cpc = "idle"

C12_CompleteIffCountIsTaskCount ==
    NoFiringInFlight =>
        \A e \in Epics :
            epicStatus[e] # NoKey =>
                ((epicStatus[e] = "complete")
                 <=> (epicCompleteCount[e] = epicTaskCount[e] /\ epicTaskCount[e] > 0))

\* C13: a firing of the complete-task hook for a task whose status was
\* already complete changes neither the epic's complete_count, nor the
\* epic's status, nor the task's status
C13_ClosingIsIdempotent ==
    [][\A pid \in DOMAIN procs :
         (procs[pid].cpc # "idle" /\ procs'[pid].cpc # procs[pid].cpc
          /\ procs[pid].cwas = "complete")
         => /\ epicCompleteCount' = epicCompleteCount
            /\ epicStatus' = epicStatus
            /\ taskStatus' = taskStatus]_vars

\* the pattern record of the task has at least 3 attempts and a success rate above 0.7
GoodPattern ==
    /\ rtPattern.present
    /\ rtPattern.attempts >= 3
    /\ rtPattern.successes * 10 > 7 * rtPattern.attempts

\* C14: route_task returns the provider stored in the task's pattern record
\* whenever that record has attempts >= 3 and a success rate above 0.7
C14_PatternRecordOverridesStaticPolicy ==
    (rtOut.route # NoKey /\ GoodPattern) => rtOut.route = rtPattern.provider

\* C15: a pattern record with fewer than 3 attempts never changes the chosen
\* provider: the choice made with it equals the choice made with no record
C15_FewAttemptsChangeNothing ==
    (rtOut.best # NoKey /\ rtPattern.present /\ rtPattern.attempts < 3)
    => rtOut.best = find_best_provider_by_pattern(NoPattern, rtStats, rtBase)

C15_Witness ==
    /\ rtOut.best # NoKey
    /\ rtPattern.present /\ rtPattern.attempts = 2 /\ rtPattern.successes = 2
    /\ rtPattern.provider # rtOut.best

\* a provider is usable: it is unmetered or its count is below its limit
Usable(p) == ~HasQuota(p) \/ CountRead(p) < Limit(p)

\* the static policy as the routing table states it
StaticPolicy(task) ==
    IF task.type = "planning"
    THEN IF Usable("claude") THEN "claude"
         ELSE IF Usable("openrouter") THEN "openrouter" ELSE "glm"
    ELSE IF task.type = "verification"
    THEN IF Usable("glm") THEN "glm" ELSE "openrouter"
    ELSE IF task.complexity = "complex"
    THEN IF Usable("claude") THEN "claude" ELSE "glm"
    ELSE IF task.complexity = "medium"
    THEN IF Usable("claude") /\ CountRead("claude") * 100 < ClaudeConservative * Limit("claude")
         THEN "claude"
         ELSE IF Usable("glm") THEN "glm" ELSE "deepseek"
    ELSE "deepseek"

C17_ReviewUsesEmergencyPool ==
    (rtOut.route # NoKey /\ rtTask.type = "review")
    => rtOut.route = (IF CountRead("claude") < Limit("claude") THEN "claude" ELSE "glm")

\* C18: the provider route_task returns is never one whose quota is
\* exhausted as long as at least one provider is usable
C18_NeverExhaustedWhileOneUsable ==
    (rtOut.route # NoKey /\ \E p \in Providers : Usable(p)) => Usable(rtOut.route)

\* C19: cascade returns the successor of previous_provider in the chain
\* deepseek, glm, openrouter, claude; claude for claude and for a provider
\* outside the chain; glm for a missing previous_provider
C19_CascadeSuccessor ==
    rtOut.cascade # NoKey
    => rtOut.cascade =
         (IF rtTask.previous_provider \in {NoKey, "deepseek"} THEN "glm"
          ELSE IF rtTask.previous_provider = "glm" THEN "openrouter"
          ELSE "claude")

C19_Witness ==
    \/ rtOut.cascade = "glm" /\ rtTask.previous_provider = NoKey
    \/ rtOut.cascade = "claude" /\ rtTask.previous_provider = "gemini"

\* the ready tasks without a live task:<id>:owner key, in the order listed
UnclaimedReady == SelectSeq(ready, LAMBDA t : ~OwnerExists(t))

\* iterations of run_iteration a supervisor has begun
IterationsBegun(s) == supIter[s] + (IF supPc[s] = "idle" THEN 0 ELSE 1)

SpawnsMade == spawnCount["T1"] + spawnCount["T2"] + spawnCount["T3"]

\* C20: one run_iteration claims at most one task and spawns at most one
\* agent; when a ready task is unclaimed and the active agents are below the
\* total capacity, _assign_task is entered once, on the first unclaimed task,
\* and never on a task whose owner key exists
C20_OneAssignmentPerIteration ==
    [][LET s == "s1" IN
       \* _assign_task is entered only from the start of an iteration, on the
       \* first unclaimed task
       /\ (supPc'[s] = "claim" /\ supPc[s] # "claim")
          => /\ supPc[s] = "idle"
             /\ UnclaimedReady # <<>>
             /\ supCur'[s].task = Head(UnclaimedReady)
             /\ ~OwnerExists(supCur'[s].task)
       \* and it is entered whenever there is such a task and capacity
       /\ (supPc[s] = "idle" /\ supPc'[s] # "idle"
           /\ UnclaimedReady # <<>> /\ TotalActive(s) < TotalCapacity)
          => supPc'[s] = "claim"
       \* an owner key is set only inside it, for that task, once
       /\ (\E t \in Tasks : owner'[t] # owner[t] /\ owner'[t].val # NoKey)
          => /\ supPc[s] = "claim" /\ supPc'[s] = "beads"
             /\ \A t \in Tasks : owner'[t] # owner[t] => t = supCur[s].task
       \* an agent is spawned only inside it, for that task, once
       /\ spawnCount' # spawnCount
          => /\ supPc[s] = "spawn" /\ supPc'[s] = "cleanup"
             /\ spawnCount' = [spawnCount EXCEPT ![supCur[s].task] = @ + 1]
       /\ SpawnsMade' <= IterationsBegun(s)']_vars

C20_Witness ==
    /\ supPc["s1"] = "claim"
    /\ supCur["s1"].task = "T2"
    /\ OwnerExists("T1")
    /\ "T3" \in {UnclaimedReady[i] : i \in DOMAIN UnclaimedReady}

\* C21: when the claim in the coordination store succeeded and the claim in
\* the issue store then fails, _assign_task deletes task:<id>:owner, spawns
\* no agent and leaves every pool unchanged, so that the next claim of the
\* task succeeds
C21_RefusedClaimIsReversed ==
    [][LET s == "s1" IN
       /\ (supPc[s] = "beads" /\ supPc'[s] = "unclaim")
          => UNCHANGED <<pools, agents, spawnCount, agentTask, heartbeat>>
       /\ (supPc[s] = "unclaim" /\ supPc'[s] # "unclaim")
          => /\ supPc'[s] = "cleanup"
             /\ owner'[supCur[s].task].val = NoKey
             /\ ClaimWins(supCur[s].task)'
             /\ UNCHANGED <<pools, agents, spawnCount, agentTask, heartbeat>>]_vars

\* a task refused in an earlier iteration has been claimed again, its first
\* owner key not yet due to expire
C21_Witness ==
    /\ supPc["s1"] = "beads"
    /\ supCur["s1"].task = "T1"
    /\ supIter["s1"] >= 1
    /\ spawnCount["T1"] = 0
    /\ OwnerExists("T1")
    /\ now < ClaimTTL

\* C22: when the child process cannot be created in spawn_agent, the task is
\* left unclaimed (task:<id>:owner absent), no agent id is added to a pool
\* and the supervisor's loop goes on
C22_SpawnFailureLeavesTaskUnclaimed ==
    \A t \in Tasks :
        lastResult["s1"][t] = "spawn_failed"
        => /\ owner[t].val = NoKey
           /\ supPc["s1"] # "raised_spawn_agent"

\* C23: a failing call of the issue store never carries an error into the
\* supervisor: every start of an iteration goes on to an assignment or to
\* the reap
C23_TrackerFailureIsSwallowed ==
    [][(supPc["s1"] = "idle" /\ supPc'["s1"] # "idle" /\ supPc'["s1"] # "stopped")
       => supPc'["s1"] \in {"claim", "cleanup"}]_vars

\* the agent ids in the active pools of a supervisor
Pooled(s) == {a \in DOMAIN agents[s] :
                \E p \in Providers : \E i \in DOMAIN pools[s][p] : pools[s][p][i] = a}

\* C24: the reap that follows the hard kill of an agent's process has
\* get_agent_status classify the agent as stale and removes it from its pool
C24_KilledAgentReapedAsStale ==
    [][(supPc["s1"] = "cleanup" /\ supPc'["s1"] = "sleep")
       => \A a \in Pooled("s1") :
             agents["s1"][a] = "killed"
             => /\ get_agent_status("s1", a) = "stale"
                /\ \A p \in Providers : \A i \in DOMAIN pools'["s1"][p] : pools'["s1"][p][i] # a]_vars

\* C25: once the supervisor has left on an interrupt, no child process it
\* spawned is still running
C25_InterruptKillsEveryChild ==
    supPc["s1"] = "stopped"
    => \A a \in DOMAIN agents["s1"] : agents["s1"][a] # "running"

\* the stored window of the tracked provider is more than window_hours old
WindowExpired ==
    /\ qWindow[TrackedProvider] # NoWindow
    /\ now - qWindow[TrackedProvider].t > WindowHours * 3600

\* C26: an access of the QuotaTracker (increment or get_usage) that finds
\* window_start more than window_hours old sets window_start to now and count
\* to 0 before it acts, so that an increment then leaves count = 1; an access
\* inside the window leaves window_start alone and changes count only by its
\* own increment
C26_WindowResetsOnAccess ==
    [][LET q == "q1"
           p == TrackedProvider
       IN /\ (tPc[q] = "ensure" /\ tPc'[q] # "ensure")
             => /\ WindowExpired => tPc'[q] = "setwin"
                /\ (qWindow[p] # NoWindow /\ ~WindowExpired) => tPc'[q] = "act"
                /\ UNCHANGED quotaVars
          /\ (tPc[q] = "setwin" /\ tPc'[q] # "setwin")
             => /\ qWindow'[p].t = now /\ qCount' = qCount /\ tPc'[q] = "setcount"
          /\ (tPc[q] = "setcount" /\ tPc'[q] # "setcount")
             => /\ qCount'[p] = 0 /\ qWindow' = qWindow /\ tPc'[q] = "act"
          /\ (tPc[q] = "act" /\ tPc'[q] # "act")
             => /\ qWindow' = qWindow
                /\ qCount'[p] = (IF tOp[q].name = "increment" THEN CountRead(p) + 1 ELSE qCount[p])]_vars

\* a reset under way: the new window is written, the old count of 2 or more
\* not yet cleared
C26_Witness ==
    /\ tPc["q1"] = "setcount"
    /\ tOp["q1"].name = "increment"
    /\ qWindow[TrackedProvider].t = now /\ now > 0
    /\ qCount[TrackedProvider] >= 2

\* the slots of the session's task that are pending and have aged 30 s or more
AgedPending ==
    {k \in Slots : /\ k[1] = toolSession
                   /\ SlotExists(k)
                   /\ vSlot[k].status = "pending"
                   /\ now - vSlot[k].timestamp >= InjectAge}

\* C27: a verify-inject run for a task with pending slots aged 30 s or more
\* sets each of them complete and injects the summary
C27_AgedSlotsAdvanceToComplete ==
    [][(vInject' # vInject /\ AgedPending # {})
       => /\ \A k \in AgedPending : vSlot'[k].status = "complete"
          /\ vInject' = "injected"]_vars

\* the providers the claim's table gives for a complexity read from the store
MandatedProviders(complexity) ==
    LET c == IF complexity = NoCount THEN 5 ELSE complexity IN
    IF c <= 4 THEN <<"deepseek">>
    ELSE IF c <= 7 THEN <<"deepseek", "glm">>
    ELSE <<"glm", "claude">>

\* a Bash command that runs git add or git commit
IsGitAddOrCommit(command) == command \in {"git add .", "git commit -m fix"}

\* C28: verify-prefetch starts creating slots only after a write-class tool or a
\* git add/commit command, for exactly the providers of the task's complexity
\* class; every slot it writes is pending with the 10 min TTL and no other slot
\* changes; after any other tool call it creates or changes no slot.
C28_PrefetchOnlyAfterWritesAndCommits ==
    [][/\ (vPc = NoRun /\ vPc' # NoRun)
          => /\ \/ vPc'.tool \in {"Write", "Edit", "MultiEdit"}
                \/ vPc'.tool = "Bash" /\ IsGitAddOrCommit(vPc'.command)
             /\ vPc'.todo = MandatedProviders(taskComplexity[vPc'.task])
       /\ (vPc # NoRun /\ vPc' # vPc)
          => LET k == <<vPc.task, Head(vPc.todo)>> IN
               /\ vSlot'[k].status = "pending"
               /\ vSlot'[k].at = now
               /\ Live(vSlot'[k].at, SlotTTL)
               /\ \A j \in Slots \ {k} : vSlot'[j] = vSlot[j]
       /\ (vPc = NoRun /\ vPc' = NoRun /\ vInject' = vInject) => vSlot' = vSlot]_vars

\* a list holds its latest pushes, the newest first, and no more than its cap
LatestInPushOrder(key) ==
    /\ Len(memList[key]) <= MemCap(key)
    /\ \A i \in 1..Len(memList[key]) : memList[key][i].n = memPushed[key] - i + 1

C30_RouterHookExitsZero == \A r \in Routers : rPc[r] # "failed"

\* the keys of the coordination store
storeVars == <<supVars, quotaVars, hookVars, trackVars, verifyVars, patternVars,
               toolSession, memVars>>

\* C31: a tool-use hook invoked for a session without session:<id>:task_id exits
\* with code 0, having written nothing to the coordination store and printed
\* nothing.
C31_UnboundSessionExitsSilently ==
    [][\A h \in HookNames :
          (hkExit'[h] # hkExit[h] /\ SessionTaskId(hkExit'[h].session_id) = NoKey)
             => /\ hkExit'[h].state = "exited"
                /\ hkExit'[h].code = 0
                /\ hkExit'[h].output = ""
                /\ UNCHANGED storeVars]_vars

C31_Witness ==
    /\ toolSession # NoKey
    /\ hkExit["track_outcome"].session_id = "unrelated"
    /\ hkExit["track_outcome"].state = "exited"
    /\ hkExit["complete_task"].state = "body"

\* the agents of provider p that the spawn-agents hook started and that still run
HookAgentsRunning(p) == {pid \in DOMAIN procs : procs[pid].alive /\ procs[pid].provider = p}

\* C32: for every provider, the agents started by the spawn-agents hook and
\* running at the same time never outnumber the provider's cap (claude 2, glm 4,
\* deepseek 6, openrouter 2, auto 2), over all invocations of the hook.
C32_HookAgentsWithinCap ==
    \A p \in Providers \cup {"auto"} : Cardinality(HookAgentsRunning(p)) <= ProviderLimit(p)

\* C33: spawn_agent registers agent:<id>:heartbeat with a TTL of at most 90 s
\* and agent:<id>:task with the task id; while the child stays alive and the
\* heartbeat thread goes round every 30 s, the heartbeat key exists and
\* get_agent_status says running, never stale.
C33_HeartbeatKeptAlive ==
    [][/\ (supPc["s1"] = "spawn" /\ supPc'["s1"] = "cleanup")
          => LET a == AgentId(supCur["s1"].provider) IN
               /\ agentTask'[a] = supCur["s1"].task
               /\ heartbeat'[a] = now
               /\ HeartbeatTTL <= 90
       /\ \A a \in DOMAIN agents'["s1"] :
             agents'["s1"][a] = "running"
                => /\ HeartbeatExists(a)'
                   /\ get_agent_status("s1", a)' = "running"]_vars

C33_Witness ==
    \E a \in DOMAIN agents["s1"] :
        /\ agents["s1"][a] = "running"
        /\ now - a.ts > HeartbeatMaxAge
        /\ get_agent_status("s1", a) = "running"

\* the child processes spawned for task t, by a supervisor or by the spawn-agents
\* hook, that are still running
LiveChildrenOf(t) ==
    Cardinality({x \in Sups \X DOMAIN agentTask :
                    /\ x[2] \in DOMAIN agents[x[1]]
                    /\ agents[x[1]][x[2]] = "running"
                    /\ agentTask[x[2]] = t})
      + Cardinality({pid \in DOMAIN procs : procs[pid].alive /\ procs[pid].task = t})

\* C34: no task has two live child processes at once, whichever of the two spawn
\* paths started them and however long the first agent runs.
C34_OneLiveChildPerTask == \A t \in Tasks : LiveChildrenOf(t) <= 1

\* C35: no completed increment is lost: whenever no QuotaTracker call is under
\* way, the stored count is the number of increments completed since the window
\* was opened, also when several clients go through the window expiry together.
C35_NoIncrementLost ==
    (\A q \in Callers : tPc[q] = "idle") => CountRead(TrackedProvider) = winIncrs

\* C36: the stored per-provider counters (total_tasks, successful_tasks) and the
\* per-(provider, complexity) counters (attempts, successes) never decrease,
\* whatever the interleaving of concurrent track-outcome hooks.
C36_StatsNeverDecrease ==
    [][/\ sRecord'.attempts >= sRecord.attempts
       /\ sRecord'.successes >= sRecord.successes
       /\ cRecord'.attempts >= cRecord.attempts
       /\ cRecord'.successes >= cRecord.successes]_vars

\* C37: once kill_agent has returned True for an agent, its process has exited,
\* it is gone from the agent map, and neither agent:<id>:heartbeat nor
\* agent:<id>:task exists, the heartbeat thread running beside the kill.
C37_KilledAgentLeavesNoKeys ==
    \A a \in killDone :
        /\ a \notin DOMAIN agents["s1"]
        /\ a \notin DOMAIN heartbeat
        /\ a \notin DOMAIN agentTask

\* C38: every agent spawned for a task has its session bound to that task and
\* its provider once its session-start hook has run: session:<id>:task_id is
\* the task id and session:<id>:provider the provider the agent was spawned
\* with, for the children of the AgentManager as for those of the hook
C38_SessionBoundToTask ==
    /\ \A a \in DOMAIN agSession :
          /\ agSession[a].task_id = agentTask[a]
          /\ agSession[a].provider = a.provider
    /\ \A pid \in DOMAIN procs :
          sessionTask[pid] \in {NoKey, procs[pid].task}

\* C40: two hook processes that computed the pattern key of the same feature
\* vector computed the same key
C40_SameFeaturesSameKey ==
    \A k \in HashProcs : \A j \in HashProcs :
       (hashProc[k].ran /\ hashProc[j].ran /\ hashProc[k].features = hashProc[j].features)
          => hashProc[k].key = hashProc[j].key

\* C39: for every epic that decomposition activated, epic:<id>:task_count is
\* the number of tasks created in the issue store and recorded for the epic
\* (the tasks whose task:<id>:epic_id names it), so that their completions
\* can bring complete_count up to task_count
C39_TaskCountIsCreatedTasks ==
    \A e \in Epics :
       epicStatus[e] # NoKey =>
          epicTaskCount[e] = Cardinality({t \in Tasks : taskEpic[t] = e /\ bdStatus[t] # NoKey})

====
